---- MODULE Spec2Model ----
(***************************************************************************)
(* A model of Alicat/alicat.py: the process-wide port registry             *)
(* (Serial_Connection.open_ports), the device handles that share its       *)
(* connections, and the framed request/response protocol (_read, _write,   *)
(* _flush, _close, change_baud).                                           *)
(*                                                                         *)
(* Strings and byte strings are sequences of character codes.  Every call  *)
(* on the serial library (write, read(1), flush, close, Serial(...)) is    *)
(* one step of the calling handle; the device and the line are an          *)
(* environment that answers frames with a byte string which arrives one    *)
(* byte at a time.                                                         *)
(***************************************************************************)
EXTENDS Integers, Sequences, FiniteSets, TLC

VARIABLES open_ports, conns, device, handle, call, env

vars == <<open_ports, conns, device, handle, call, env>>

-----------------------------------------------------------------------------
(* Bounds of the model. *)

\* serial.Serial objects created in one run
MaxConns == 3

\* bytes the device may hold queued for one port
MaxPending == 4

\* bytes of a drawn input line in the _read specification
MaxLine == 4

Handles == {1, 2}

Ports == {"ttyUSB0", "ttyUSB1"}

Bauds == {19200, 38400}

\* The rates change_baud is asked for: those, one only the later firmware has
\* and one that no firmware has
Rates == Bauds \cup {57600, 4800}

NoConn == 0

-----------------------------------------------------------------------------
(* Character codes. *)

CR == 13

BS == 8

SP == 32

\* str.strip() without arguments removes these (the ASCII whitespace of str)
Whitespace == {9, 10, 11, 12, 13, 28, 29, 30, 31, 32}

Str_A == <<65>>

Str_B == <<66>>

\* firmware_version is the str 'GP' on a legacy device and the int major otherwise;
\* GP stands for the str, so that isinstance(firmware_version, str) is firmware_version = GP
GP == -1

\* '$$L', '$$R87', '$$W87=', '$$W17='
Cmd_Lock == <<36, 36, 76>>

Cmd_R87 == <<36, 36, 82, 56, 55>>

Cmd_W87 == <<36, 36, 87, 56, 55, 61>>

Cmd_W17 == <<36, 36, 87, 49, 55, 61>>

\* b"A +012.34 +005.67 Air\r"
ExampleLine == <<65, 32, 43, 48, 49, 50, 46, 51, 52, 32, 43, 48, 48, 53, 46, 54, 55, 32, 65, 105, 114, 13>>

\* "A +012.34 +005.67 Air"
ExampleText == SubSeq(ExampleLine, 1, 21)

-----------------------------------------------------------------------------
(* Python's str and bytes operations used by _read and _write. *)

\* bytes.decode('ascii') and str.encode('ascii') fail on a code above 127
IsAscii(s) == \A i \in 1..Len(s) : s[i] < 128

RECURSIVE LStrip(_)
LStrip(s) == IF s # <<>> /\ Head(s) \in Whitespace THEN LStrip(Tail(s)) ELSE s

RECURSIVE RStrip(_)
RStrip(s) == IF s # <<>> /\ s[Len(s)] \in Whitespace THEN RStrip(SubSeq(s, 1, Len(s) - 1)) ELSE s

Strip(s) == RStrip(LStrip(s))

RemoveBackspace(s) == SelectSeq(s, LAMBDA c : c # BS)

\* _read's value without the replace: the backspaces stay.
ReadResultStripOnly(line) == Strip(line)

\* line.decode('ascii').strip().replace('\x08','')
ReadResult(line) == RemoveBackspace(Strip(line))

RECURSIVE Digits(_)
Digits(n) == IF n < 10 THEN <<48 + n>> ELSE Digits(n \div 10) \o <<48 + (n % 10)>>

\* The frame without its terminator.
FrameWithoutCR(ID, command) == ID \o command

\* str(ID) + str(command) + '\r'
Frame(ID, command) == ID \o command \o <<CR>>

\* str.split() without arguments: the maximal runs of non-whitespace
RECURSIVE SplitFrom(_, _, _)
SplitFrom(s, cur, acc) ==
    IF s = <<>> THEN (IF cur = <<>> THEN acc ELSE Append(acc, cur))
    ELSE IF Head(s) \in Whitespace
         THEN SplitFrom(Tail(s), <<>>, IF cur = <<>> THEN acc ELSE Append(acc, cur))
         ELSE SplitFrom(Tail(s), Append(cur, Head(s)), acc)

Split(s) == SplitFrom(s, <<>>, <<>>)

IsDigits(s) == s # <<>> /\ \A i \in 1..Len(s) : s[i] \in 48..57

RECURSIVE DigitsValue(_)
DigitsValue(s) == IF s = <<>> THEN 0 ELSE 10 * DigitsValue(SubSeq(s, 1, Len(s) - 1)) + (s[Len(s)] - 48)

\* int(token): an optional sign and decimal digits, anything else is a ValueError
IsInt(s) == IF s # <<>> /\ Head(s) \in {43, 45} THEN IsDigits(Tail(s)) ELSE IsDigits(s)

IntValue(s) ==
    IF Head(s) = 45 THEN 0 - DigitsValue(Tail(s))
    ELSE IF Head(s) = 43 THEN DigitsValue(Tail(s))
    ELSE DigitsValue(s)

\* f'{n}' of an int
IntStr(n) == IF n < 0 THEN <<45>> \o Digits(0 - n) ELSE Digits(n)

\* n & 2
And2(n) == 2 * ((n \div 2) % 2)

-----------------------------------------------------------------------------
(* The state.                                                              *)
(*   open_ports  Serial_Connection.open_ports: port -> connection, NoConn  *)
(*               where the port has no entry                               *)
(*   conns       the serial.Serial objects created so far, by identity:    *)
(*               port, baud, is_open and the bytes received and not read   *)
(*   device      per port, the bytes the device has produced and the line  *)
(*               has not delivered yet                                     *)
(*   handle      the device handles: port, baud, connection, open, ID,     *)
(*               firmware_version                                          *)
(*   call        per handle, the call in progress on its thread            *)
(*   env         what the run fixes: the replies the device can give, and  *)
(*               whether the handles are driven by concurrent threads      *)
(***************************************************************************)

ConnIds == 1..Len(conns)

\* self.variables as far as the settings operations use it: the change counters,
\* the cached persistence flags, the current gas, the control variable, the
\* active full scale and the last setpoint
NoVariables == [gas_changes |-> 0, setpoint_changes |-> 0, ram_only_gas |-> 0,
                ram_only_setpoint |-> 0, current_gas |-> "Air", control_variable |-> 1024,
                fullscale |-> 100, mfullscale |-> 100, setpoint |-> <<>>,
                current_loop |-> "none",
                gas_list |-> <<>>, gas_ref |-> [index |-> <<>>, name |-> <<>>],
                reverse_gas_list |-> <<>>, serialnum |-> <<>>,
                firmware_version |-> [int |-> FALSE, n |-> 0, s |-> <<>>],
                firmware_minor |-> <<>>, data |-> <<>>, ranges |-> <<>>, keys |-> <<>>]

NoHandle == [exists |-> FALSE, port |-> "ttyUSB0", baud |-> 19200, connection |-> NoConn,
             open |-> FALSE, ID |-> Str_A, firmware_version |-> GP, variables |-> NoVariables,
             class |-> "MassFlowController"]

NoRet == [kind |-> "None", line |-> <<>>, lines |-> <<>>, values |-> <<>>]

Idle == [op |-> "none", args |-> <<>>, pc |-> "idle", command |-> <<>>, verbose |-> FALSE, line |-> <<>>,
         response |-> <<>>, stage |-> "none", newbaud |-> 0, ret |-> NoRet, err |-> "none",
         log |-> <<>>, line_stale |-> FALSE, stale |-> FALSE]

\* The entry of a call: nothing of the handle's earlier call is kept.
Begin(name) == [Idle EXCEPT !.op = name]

\* call, with c the call of handle h.  Without threads, what is remembered of a
\* call that has ended on another handle is dropped when a new call starts.
Start(h, c) ==
    [g \in Handles |-> IF g = h THEN c
                       ELSE IF call[g].pc = "idle" /\ ~env.threads THEN Idle ELSE call[g]]

\* An exception leaves the call and everything that called it.
Raise(c, e) == [c EXCEPT !.pc = "idle", !.err = e, !.stage = "none", !.ret = NoRet]

Return(c, r) == [c EXCEPT !.pc = "idle", !.stage = "none", !.ret = r]

Logged(c, ev, data) == [c EXCEPT !.log = Append(@, <<ev, data>>)]

\* One thread of control per handle; without threads a call runs to its end
\* before another handle's call starts.
Scheduled(h) == env.threads \/ \A g \in Handles \ {h} : call[g].pc = "idle"

\* A call can start on a constructed handle that is in no call; a thread makes
\* one call on its handle.
CanCall(h) ==
    /\ handle[h].exists
    /\ call[h].pc = "idle"
    /\ Scheduled(h)
    /\ env.threads => call[h].op = "none"

-----------------------------------------------------------------------------
(* The serial line and the device behind it. *)

\* The replies the device may give to a frame while its queue has room.
Fitting(p) == {r \in env.replies : Len(device[p].pending) + Len(r) <= MaxPending}

\* connection.write(frame) on open connection c: the frame reaches the device of
\* the port, which answers with r.  Every byte received or queued before answers
\* an earlier frame.  A prompt line has delivered the reply before the caller's
\* next step; otherwise the reply is queued and arrives byte by byte (DeviceSend).
Transmit(c, r) ==
    LET p == conns[c].port IN
    IF env.prompt
    THEN /\ conns' = [conns EXCEPT ![c].rx_stale = Len(conns[c].rx), ![c].rx = @ \o r]
         /\ UNCHANGED device
    ELSE /\ device' = [device EXCEPT ![p].pending = @ \o r, ![p].stale = Len(device[p].pending)]
         /\ conns' = [conns EXCEPT ![c].rx_stale = Len(conns[c].rx)]

\* The line delivers the next queued byte of port p to the connection open on it;
\* with no connection open the byte is lost.
DeviceSend(p) ==
    /\ device[p].pending # <<>>
    /\ LET b == Head(device[p].pending)
           old == device[p].stale > 0
       IN /\ device' = [device EXCEPT ![p].pending = Tail(@),
                                       ![p].stale = IF old THEN @ - 1 ELSE 0]
          /\ conns' = [c \in ConnIds |->
                         IF conns[c].port = p /\ conns[c].is_open
                         THEN [conns[c] EXCEPT !.rx = Append(@, b),
                                               !.rx_stale = IF old THEN Len(conns[c].rx) + 1 ELSE @]
                         ELSE conns[c]]
    /\ UNCHANGED <<open_ports, handle, call, env>>

-----------------------------------------------------------------------------
(* Serial_Connection._write, _read and _flush, one serial-library call a step. *)

\* The baud table of the later firmware, for every unit
GPBaudsSixEntries == (2400 :> 0) @@ (9600 :> 1) @@ (19200 :> 2) @@ (38400 :> 3) @@ (57600 :> 4)
                     @@ (115200 :> 5)

GPBauds == (2400 :> 0) @@ (9600 :> 1) @@ (19200 :> 2) @@ (38400 :> 3)

ModernBauds == GPBauds @@ (57600 :> 4) @@ (115200 :> 5)

Ord(ID) == ID[1]

\* What follows the return of a _write: its caller is the user, or change_baud at
\* one of its three writes.
AfterWrite(h, c, lines) ==
    CASE c.stage = "r87" ->
           \* r87 = int(self._write(self.ID,'$$R87', True)[0].split()[-1])
           IF lines = <<>> THEN Raise(c, "IndexError")
           ELSE LET toks == Split(lines[1]) IN
                IF toks = <<>> THEN Raise(c, "IndexError")
                ELSE IF ~IsInt(toks[Len(toks)]) THEN Raise(c, "ValueError")
                ELSE LET r87 == IntValue(toks[Len(toks)]) IN
                     [c EXCEPT !.pc = "write", !.stage = "w87", !.verbose = FALSE,
                               !.command = Cmd_W87 \o IntStr(r87 + 2 - And2(r87))]
      [] c.stage = "w87" ->
           IF c.newbaud \notin DOMAIN ModernBauds THEN Raise(c, "KeyError")
           ELSE [c EXCEPT !.pc = "write", !.stage = "w17", !.verbose = FALSE,
                          !.command = Cmd_W17 \o IntStr(240 + 256 * Ord(handle[h].ID)
                                                        + ModernBauds[c.newbaud])]
      [] c.stage = "w17" -> [c EXCEPT !.pc = "reopen"]
      [] OTHER -> Return(c, [NoRet EXCEPT !.kind = IF c.verbose THEN "list" ELSE "None",
                                          !.lines = lines])

\* _write(ID, command, verbose) called on an idle handle
Call_write(h, command, verbose) ==
    /\ CanCall(h)
    /\ call' = Start(h, [Begin("_write") EXCEPT !.pc = "write",
                                           !.command = command, !.verbose = verbose])
    /\ UNCHANGED <<open_ports, conns, device, handle, env>>

\* command.encode('ascii'); self.connection.write(command)
ConnWrite(h) ==
    /\ call[h].pc = "write"
    /\ Scheduled(h)
    /\ LET c == call[h]
           k == handle[h].connection
           frame == Frame(handle[h].ID, c.command)
       IN IF ~IsAscii(frame)
          THEN /\ call' = [call EXCEPT ![h] = Raise(c, "UnicodeEncodeError")]
               /\ UNCHANGED <<conns, device>>
          ELSE IF ~conns[k].is_open
          THEN /\ call' = [call EXCEPT ![h] = Raise(c, "PortNotOpenError")]
               /\ UNCHANGED <<conns, device>>
          ELSE /\ \E r \in Fitting(conns[k].port) : Transmit(k, r)
               /\ call' = [call EXCEPT ![h] =
                             [Logged(c, "write", frame) EXCEPT
                                 !.pc = IF c.verbose THEN "read" ELSE "flush",
                                 !.line = <<>>, !.response = <<>>]]
    /\ UNCHANGED <<open_ports, handle, env>>

\* The loop of a verbose _write returning response instead of response[:-1].
AfterReadKeepsTerminator(h, c, line) ==
    IF ~IsAscii(line) THEN Raise(c, "UnicodeDecodeError")
    ELSE LET val == ReadResult(line) IN
         IF c.op = "_read" THEN Return(c, [NoRet EXCEPT !.kind = "str", !.line = val])
         ELSE IF val # <<>>
              THEN [c EXCEPT !.response = Append(@, val), !.line = <<>>,
                             !.stale = @ \/ c.line_stale, !.line_stale = FALSE]
              ELSE AfterWrite(h, [c EXCEPT !.response = Append(@, val), !.line = <<>>,
                                           !.line_stale = FALSE],
                              Append(c.response, val))

\* The end of one _read with the bytes of `line` accumulated: the value goes to the
\* caller of _read, or onto response in the loop of a verbose _write.
AfterRead(h, c, line) ==
    IF ~IsAscii(line) THEN Raise(c, "UnicodeDecodeError")
    ELSE LET val == ReadResult(line) IN
         IF c.op = "_read" THEN Return(c, [NoRet EXCEPT !.kind = "str", !.line = val])
         ELSE IF val # <<>>
              THEN [c EXCEPT !.response = Append(@, val), !.line = <<>>,
                             !.stale = @ \/ c.line_stale, !.line_stale = FALSE]
              ELSE AfterWrite(h, [c EXCEPT !.response = Append(@, val), !.line = <<>>,
                                           !.line_stale = FALSE],
                              c.response)

\* _read() called on an idle handle
Call_read(h) ==
    /\ CanCall(h)
    /\ call' = Start(h, [Begin("_read") EXCEPT !.pc = "read"])
    /\ UNCHANGED <<open_ports, conns, device, handle, env>>

\* The pass of the loop on a connection opened without timeout: read(1) returns
\* only with a byte.
ConnReadBlocking(h) ==
    /\ call[h].pc = "read"
    /\ Scheduled(h)
    /\ LET c == call[h]
           k == handle[h].connection
       IN IF ~handle[h].open
          THEN /\ call' = [call EXCEPT ![h] = Raise(c, "IOError")]
               /\ UNCHANGED conns
          ELSE IF ~conns[k].is_open
          THEN /\ call' = [call EXCEPT ![h] = Raise(c, "PortNotOpenError")]
               /\ UNCHANGED conns
          ELSE /\ conns[k].rx # <<>>
               /\ LET b == Head(conns[k].rx)
                      line == Append(c.line, b)
                      got == [Logged(c, "read", <<b>>) EXCEPT
                                 !.line = line, !.line_stale = @ \/ conns[k].rx_stale > 0]
                  IN /\ conns' = [conns EXCEPT ![k].rx = Tail(@),
                                               ![k].rx_stale = IF @ > 0 THEN @ - 1 ELSE 0]
                     /\ call' = [call EXCEPT ![h] = IF b = CR THEN AfterRead(h, got, line) ELSE got]
    /\ UNCHANGED <<open_ports, device, handle, env>>

\* One pass of the loop of _read: c = self.connection.read(1), after _test_open.
\* read(1) returns the next received byte, or nothing when none arrives in time.
ConnRead(h) ==
    /\ call[h].pc = "read"
    /\ Scheduled(h)
    /\ LET c == call[h]
           k == handle[h].connection
       IN IF ~handle[h].open
          THEN /\ call' = [call EXCEPT ![h] = Raise(c, "IOError")]
               /\ UNCHANGED conns
          ELSE IF ~conns[k].is_open
          THEN /\ call' = [call EXCEPT ![h] = Raise(c, "PortNotOpenError")]
               /\ UNCHANGED conns
          ELSE IF conns[k].rx = <<>>
          THEN /\ call' = [call EXCEPT ![h] = AfterRead(h, Logged(c, "timeout", <<>>), c.line)]
               /\ UNCHANGED conns
          ELSE LET b == Head(conns[k].rx)
                   line == Append(c.line, b)
                   got == [Logged(c, "read", <<b>>) EXCEPT
                              !.line = line, !.line_stale = @ \/ conns[k].rx_stale > 0]
               IN /\ conns' = [conns EXCEPT ![k].rx = Tail(@),
                                            ![k].rx_stale = IF @ > 0 THEN @ - 1 ELSE 0]
                  /\ call' = [call EXCEPT ![h] = IF b = CR THEN AfterRead(h, got, line) ELSE got]
    /\ UNCHANGED <<open_ports, device, handle, env>>

\* _flush() called on an idle handle
Call_flush(h) ==
    /\ CanCall(h)
    /\ call' = Start(h, [Begin("_flush") EXCEPT !.pc = "flush"])
    /\ UNCHANGED <<open_ports, conns, device, handle, env>>

\* _flush: _test_open, then flush(), flushInput() and flushOutput() on the connection
ConnFlush(h) ==
    /\ call[h].pc = "flush"
    /\ Scheduled(h)
    /\ LET c == call[h]
           k == handle[h].connection
       IN IF ~handle[h].open
          THEN /\ call' = [call EXCEPT ![h] = Raise(c, "IOError")]
               /\ UNCHANGED conns
          ELSE IF ~conns[k].is_open
          THEN /\ call' = [call EXCEPT ![h] = Raise(c, "PortNotOpenError")]
               /\ UNCHANGED conns
          ELSE /\ conns' = [conns EXCEPT ![k].rx = <<>>, ![k].rx_stale = 0]
               /\ call' = [call EXCEPT ![h] =
                             IF c.op = "_flush" THEN Return(Logged(c, "flush", <<>>), NoRet)
                             ELSE AfterWrite(h, Logged(c, "flush", <<>>), <<>>)]
    /\ UNCHANGED <<open_ports, device, handle, env>>

-----------------------------------------------------------------------------
(* The port registry: Serial_Connection.__init__ and _close, as functions of *)
(* the registry, the connections and the handles, so that change_baud can    *)
(* run one after the other.                                                  *)

Registry == [open_ports |-> open_ports, conns |-> conns, handle |-> handle,
             err |-> "none", events |-> <<>>]

NewConn(port, baud) == [port |-> port, baud |-> baud, is_open |-> TRUE, rx |-> <<>>, rx_stale |-> 0]

\* __init__ without the registry lookup: every construction opens a connection.
__init__AlwaysOpens(st, h, port, baud) ==
    LET k == Len(st.conns) + 1 IN
    [st EXCEPT !.handle[h].port = port, !.handle[h].baud = baud,
               !.conns = Append(@, NewConn(port, baud)),
               !.open_ports[port] = k,
               !.handle[h].connection = k,
               !.handle[h].open = TRUE,
               !.events = Append(@, <<"open", <<k, baud>>>>)]

\* Serial_Connection.__init__(self, port, baud)
__init__(st, h, port, baud) ==
    IF st.open_ports[port] # NoConn
    THEN [st EXCEPT !.handle[h].port = port, !.handle[h].baud = baud,
                    !.handle[h].connection = st.open_ports[port],
                    !.handle[h].open = TRUE]
    ELSE LET k == Len(st.conns) + 1 IN
         [st EXCEPT !.handle[h].port = port, !.handle[h].baud = baud,
                    !.conns = Append(@, NewConn(port, baud)),
                    !.open_ports[port] = k,
                    !.handle[h].connection = k,
                    !.handle[h].open = TRUE,
                    !.events = Append(@, <<"open", <<k, baud>>>>)]

\* _close that flushes and marks the handle closed, leaving the connection open
\* and registered
_closeLeavesConnection(st, h) ==
    LET k == st.handle[h].connection IN
    IF ~st.handle[h].open THEN st
    ELSE IF ~st.conns[k].is_open THEN [st EXCEPT !.err = "PortNotOpenError"]
    ELSE [st EXCEPT !.conns[k].rx = <<>>, !.conns[k].rx_stale = 0,
                    !.handle[h].open = FALSE,
                    !.events = @ \o << <<"flush", <<>>>>, <<"close", <<k>>>> >>]

\* Serial_Connection._close(self)
_close(st, h) ==
    LET k == st.handle[h].connection IN
    IF ~st.handle[h].open THEN st
    ELSE IF ~st.conns[k].is_open THEN [st EXCEPT !.err = "PortNotOpenError"]
    ELSE [st EXCEPT !.conns[k].rx = <<>>, !.conns[k].rx_stale = 0,
                    !.conns[k].is_open = FALSE,
                    !.open_ports[st.handle[h].port] = NoConn,
                    !.handle[h].open = FALSE,
                    !.events = @ \o << <<"flush", <<>>>>, <<"close", <<k>>>> >>]

\* Whether __init__ on `port` finds the registry's connection or has room to open one.
Room(port) == open_ports[port] # NoConn \/ Len(conns) < MaxConns

Install(st) ==
    /\ open_ports' = st.open_ports
    /\ conns' = st.conns
    /\ handle' = st.handle

\* MassFlowMeter(ID, port, baud, config): Serial_Connection.__init__, then the
\* handle's tag and the discovered or loaded firmware generation.
Construct(h, ID, port, baud, fw) ==
    /\ ~handle[h].exists
    /\ \A g \in Handles : call[g].pc = "idle"
    /\ Room(port)
    /\ LET st == __init__(Registry, h, port, baud) IN
       /\ Install([st EXCEPT !.handle[h].exists = TRUE, !.handle[h].ID = ID,
                             !.handle[h].firmware_version = fw])
       /\ call' = Start(h, [Begin("__init__") EXCEPT !.log = st.events])
    /\ UNCHANGED <<device, env>>

\* The same construction when a discovery step raises: no handle is returned,
\* what Serial_Connection.__init__ did to the registry stays.
ConstructFails(h, port, baud) ==
    /\ ~handle[h].exists
    /\ \A g \in Handles : call[g].pc = "idle"
    /\ Room(port)
    /\ LET st == __init__(Registry, h, port, baud) IN
       Install([st EXCEPT !.handle = handle])
    /\ UNCHANGED <<device, call, env>>

\* _close() called on an idle handle
Close(h) ==
    /\ CanCall(h)
    /\ LET st == _close(Registry, h) IN
       IF st.err # "none"
       THEN /\ call' = Start(h, Raise(Begin("_close"), st.err))
            /\ UNCHANGED <<open_ports, conns, handle>>
       ELSE /\ Install(st)
            /\ call' = Start(h, [Begin("_close") EXCEPT !.log = st.events])
    /\ UNCHANGED <<device, env>>

\* change_baud(newbaud) called on an idle handle: up to its first _write
Call_change_baud(h, newbaud) ==
    /\ CanCall(h)
    /\ Len(conns) < MaxConns
    /\ LET c == [Begin("change_baud") EXCEPT !.newbaud = newbaud] IN
       call' = Start(h,
          IF newbaud = handle[h].baud THEN c
          ELSE IF handle[h].firmware_version = GP
          THEN IF newbaud \notin DOMAIN GPBauds THEN Raise(c, "KeyError")
               ELSE [c EXCEPT !.pc = "write", !.stage = "w17", !.verbose = FALSE,
                              !.command = Cmd_W17 \o IntStr(256 * Ord(handle[h].ID)
                                                            + GPBauds[newbaud])]
          ELSE [c EXCEPT !.pc = "write", !.stage = "r87", !.verbose = TRUE,
                         !.command = Cmd_R87])
    /\ UNCHANGED <<open_ports, conns, device, handle, env>>

\* The end of change_baud: self.baud = newbaud; self._close();
\* super().__init__(self.port, self.baud)
Reopen(h) ==
    /\ call[h].pc = "reopen"
    /\ Scheduled(h)
    /\ Len(conns) < MaxConns
    /\ LET c == call[h]
           st0 == [Registry EXCEPT !.handle[h].baud = c.newbaud]
           st1 == _close(st0, h)
           st2 == __init__(st1, h, handle[h].port, c.newbaud)
       IN IF st1.err # "none"
          THEN /\ Install(st0)
               /\ call' = [call EXCEPT ![h] = Raise(c, st1.err)]
          ELSE /\ Install(st2)
               /\ call' = [call EXCEPT ![h] = Return([c EXCEPT !.log = @ \o st2.events], NoRet)]
    /\ UNCHANGED <<device, env>>

-----------------------------------------------------------------------------
(* The specifications. *)

\* The _write calls of the handles' users: the telemetry poll, which reads the
\* answer, and the display lock, which does not
Writes == {[command |-> <<>>, verbose |-> TRUE], [command |-> Cmd_Lock, verbose |-> FALSE]}

\* The unit tags the handles are constructed with
TagOf == <<Str_A, Str_B>>

\* and the firmware generations of their devices: a legacy one and a major 8
FirmwareOf == <<GP, 8>>

\* Replies of the device: none, a register line "A 2", a line that is cut short,
\* a blank line, a line with blanks and a backspace to drop
Reply_A2 == <<65, SP, 50, CR>>

Replies == {<<>>, Reply_A2, <<65>>, <<CR>>, <<SP, BS, 65, CR>>}

\* The settings registers of the unit on a port, all zero
NoRegisters == [a \in {17, 18, 19, 20} |-> 0]

\* The tables and the telemetry line the unit on a port answers with, none
NoTables == [G |-> <<>>, M |-> <<>>, D |-> <<>>, poll |-> <<>>,
             FPF |-> [n \in {2, 6, 7} |-> <<>>]]

NoDevice == [p \in Ports |-> [pending |-> <<>>, stale |-> 0, regs |-> NoRegisters,
                              tables |-> NoTables]]

\* The bytes a line can carry: a letter, a blank, a backspace, the carriage
\* return and a byte that is not ASCII
Alphabet == {65, SP, BS, CR, 200}

Inputs == UNION {[1..n -> Alphabet] : n \in 0..MaxLine} \cup {ExampleLine}

\* The handles of hs constructed on port ttyUSB0 at 19200 baud, sharing the one
\* connection Serial_Connection.__init__ opened for the first of them, with rx
\* received on it.
Constructed(hs, rx) ==
    /\ open_ports = [p \in Ports |-> IF p = "ttyUSB0" THEN 1 ELSE NoConn]
    /\ conns = <<[NewConn("ttyUSB0", 19200) EXCEPT !.rx = rx]>>
    /\ device = NoDevice
    /\ handle = [h \in Handles |->
                   IF h \in hs
                   THEN [exists |-> TRUE, port |-> "ttyUSB0", baud |-> 19200, connection |-> 1,
                         open |-> TRUE, ID |-> TagOf[h], firmware_version |-> FirmwareOf[h],
                             class |-> "MassFlowController",
                         variables |-> NoVariables]
                   ELSE NoHandle]
    /\ call = [h \in Handles |-> Idle]

\* The process starts with no connection, no handle and an empty registry.
Init ==
    /\ open_ports = [p \in Ports |-> NoConn]
    /\ conns = <<>>
    /\ device = NoDevice
    /\ handle = [h \in Handles |-> NoHandle]
    /\ call = [h \in Handles |-> Idle]
    /\ env = [replies |-> {<<>>, Reply_A2}, prompt |-> TRUE, threads |-> FALSE]

Next ==
    \/ \E h \in Handles, port \in Ports, baud \in Bauds :
          Construct(h, TagOf[h], port, baud, FirmwareOf[h])
    \/ \E h \in Handles, port \in Ports, baud \in Bauds : ConstructFails(h, port, baud)
    \/ \E h \in Handles : Close(h)
    \/ \E h \in Handles, newbaud \in Rates : Call_change_baud(h, newbaud)
    \/ \E h \in Handles : Reopen(h)
    \/ \E h \in Handles, w \in Writes : Call_write(h, w.command, w.verbose)
    \/ \E h \in Handles : Call_read(h)
    \/ \E h \in Handles : Call_flush(h)
    \/ \E h \in Handles : ConnWrite(h)
    \/ \E h \in Handles : ConnRead(h)
    \/ \E h \in Handles : ConnFlush(h)

Spec == Init /\ [][Next]_vars

\* The request/response protocol of one handle, the device answering in its own time.
InitIO ==
    /\ Constructed({1}, <<>>)
    /\ env = [replies |-> Replies, prompt |-> FALSE, threads |-> FALSE]

NextIO ==
    \/ \E h \in Handles, w \in Writes : Call_write(h, w.command, w.verbose)
    \/ \E h \in Handles : Call_read(h)
    \/ \E h \in Handles : Call_flush(h)
    \/ \E h \in Handles : ConnWrite(h)
    \/ \E h \in Handles : ConnRead(h)
    \/ \E h \in Handles : ConnFlush(h)
    \/ \E p \in Ports : DeviceSend(p)

SpecIO == InitIO /\ [][NextIO]_vars

\* A device that answers with nothing, with a line that is cut short or with a
\* whole line, in its own time or never; the thread of a handle in a call is
\* given its steps, which is to say that every call on the serial library returns.
InitLive ==
    /\ Constructed({1}, <<>>)
    /\ env = [replies |-> {<<>>, <<65>>, <<65, CR>>}, prompt |-> FALSE, threads |-> FALSE]

NextLive ==
    \/ \E h \in Handles, w \in Writes : Call_write(h, w.command, w.verbose)
    \/ \E h \in Handles : Call_read(h)
    \/ \E h \in Handles : ConnWrite(h)
    \/ \E h \in Handles : ConnRead(h)
    \/ \E h \in Handles : ConnFlush(h)
    \/ \E p \in Ports : DeviceSend(p)

SpecLive ==
    /\ InitLive
    /\ [][NextLive]_vars
    /\ \A h \in Handles : WF_vars(ConnWrite(h) \/ ConnRead(h) \/ ConnFlush(h))

\* _read on whatever bytes the connection has received, nothing arriving after.
InitRead ==
    /\ \E rx \in Inputs : Constructed({1}, rx)
    /\ env = [replies |-> {<<>>}, prompt |-> TRUE, threads |-> FALSE]

NextRead ==
    \/ \E h \in Handles : Call_read(h)
    \/ \E h \in Handles : ConnRead(h)

SpecRead == InitRead /\ [][NextRead]_vars

\* Two handles on one port, each driven by a thread of its own.
InitThreads ==
    /\ Constructed({1, 2}, <<>>)
    /\ env = [replies |-> {<<>>, Reply_A2}, prompt |-> TRUE, threads |-> TRUE]

NextThreads ==
    \/ \E h \in Handles, w \in Writes : Call_write(h, w.command, w.verbose)
    \/ \E h \in Handles : ConnWrite(h)
    \/ \E h \in Handles : ConnRead(h)
    \/ \E h \in Handles : ConnFlush(h)

SpecThreads == InitThreads /\ [][NextThreads]_vars

-----------------------------------------------------------------------------
(* The port registry (Spec). *)

OneOpenConnectionPerPort ==
    \A a, b \in ConnIds :
        conns[a].is_open /\ conns[b].is_open /\ conns[a].port = conns[b].port => a = b

\* A step that constructs handle h: on a registered port it takes the registered
\* connection and changes neither the connections (their baud included) nor the
\* registry; on an unregistered port it opens one connection and registers it.
ConstructionReuses ==
    \A h \in Handles :
        ~handle[h].exists /\ handle'[h].exists =>
            LET p == handle'[h].port IN
            IF open_ports[p] # NoConn
            THEN /\ handle'[h].connection = open_ports[p]
                 /\ conns' = conns
                 /\ open_ports' = open_ports
            ELSE /\ Len(conns') = Len(conns) + 1
                 /\ handle'[h].connection = Len(conns')
                 /\ open_ports' = [open_ports EXCEPT ![p] = Len(conns')]

\* A step that opens a connection opens one, on a port whose registry entry was
\* absent or is closed by the same step (change_baud), and registers it.
OpensOnlyWhenAbsent ==
    Len(conns') # Len(conns) =>
        LET k == Len(conns')
            p == conns'[k].port
        IN /\ k = Len(conns) + 1
           /\ conns'[k].is_open
           /\ open_ports'[p] = k
           /\ open_ports[p] = NoConn \/ ~conns'[open_ports[p]].is_open

\* C1: after any sequence of constructions, _close and change_baud calls, at most
\* one open connection exists per port; a construction on a registered port reuses
\* the registered connection, whatever baud it asks for, and opens nothing; only a
\* port absent from the registry gets a new connection, which is registered.
C1_OneConnectionPerPort ==
    /\ []OneOpenConnectionPerPort
    /\ [][ConstructionReuses /\ OpensOnlyWhenAbsent]_vars

\* C1 witness: two handles share the one open connection of a port, and one of
\* them asked for another baud than the connection was opened with.
C1_Witness ==
    \E h, g \in Handles :
        /\ h # g /\ handle[h].exists /\ handle[g].exists
        /\ handle[h].open /\ handle[g].open
        /\ handle[h].port = handle[g].port
        /\ handle[h].connection = handle[g].connection
        /\ conns[handle[h].connection].is_open
        /\ handle[h].baud # conns[handle[h].connection].baud

\* C2: with two handles open on one port, a _close of one of them leaves the
\* shared connection open and registered while the other handle is open.
C2_CloseKeepsSharedConnection ==
    [][\A h, g \in Handles :
          /\ h # g /\ handle[h].open /\ handle[g].open
          /\ handle[h].port = handle[g].port
          /\ handle[h].connection = handle[g].connection
          /\ conns[handle[h].connection].is_open
          /\ ~handle'[h].open /\ handle'[g].open
          => /\ conns'[handle[h].connection].is_open
             /\ open_ports'[handle[h].port] = handle[h].connection]_vars

\* C3: every open handle references the connection registered for its port, so
\* that all open handles of one port reference the identical connection, also
\* after one of them has performed change_baud.
C3_OpenHandlesShareRegistered ==
    \A h \in Handles :
        handle[h].exists /\ handle[h].open => handle[h].connection = open_ports[handle[h].port]

\* C4: a _write, _read or _flush on a handle that is not open fails with the
\* IOError of _test_open, before any call on the connection.
C4_ClosedHandleFailsInTestOpen ==
    \A h \in Handles :
        /\ handle[h].exists /\ ~handle[h].open
        /\ call[h].pc = "idle" /\ call[h].op \in {"_write", "_read", "_flush"}
        => call[h].err = "IOError" /\ call[h].log = <<>>

-----------------------------------------------------------------------------
(* What a call did, read off the serial-library calls it made (call[h].log). *)

\* The bytes the events carry, in order
RECURSIVE Bytes(_)
Bytes(evs) == IF evs = <<>> THEN <<>> ELSE Head(evs)[2] \o Bytes(Tail(evs))

WritesOf(log) == SelectSeq(log, LAMBDA e : e[1] = "write")

\* A read(1) that ends a _read: the carriage return, or nothing in time
EndsRead(e) == e[1] = "timeout" \/ (e[1] = "read" /\ e[2] = <<CR>>)

\* s from its first to its last character that is not whitespace
Trimmed(s) ==
    LET keep == {i \in 1..Len(s) : s[i] \notin Whitespace} IN
    IF keep = {} THEN <<>>
    ELSE SubSeq(s, CHOOSE i \in keep : \A j \in keep : i <= j,
                   CHOOSE i \in keep : \A j \in keep : i >= j)

RECURSIVE NoBackspace(_)
NoBackspace(s) ==
    IF s = <<>> THEN <<>>
    ELSE (IF Head(s) = BS THEN <<>> ELSE <<Head(s)>>) \o NoBackspace(Tail(s))

\* The text of a received line: trimmed, and then without its backspaces
TextOf(bytes) == NoBackspace(Trimmed(bytes))

\* The positions of R, a sequence of read(1) events, that end a _read
EndsIn(R) == {i \in 1..Len(R) : EndsRead(R[i])}

\* The text of the line whose _read ends at position i of R
LineEnding(R, i) ==
    LET before == {j \in EndsIn(R) : j < i}
        start == IF before = {} THEN 1
                 ELSE 1 + CHOOSE j \in before : \A m \in before : m <= j
    IN TextOf(Bytes(SubSeq(R, start, i)))

\* The texts of the lines read in R, in order
LinesRead(R) ==
    LET E == EndsIn(R) IN
    [n \in 1..Cardinality(E) |->
        LineEnding(R, CHOOSE i \in E : Cardinality({j \in E : j <= i}) = n)]

\* A verbose _write that has returned
VerboseDone(h) ==
    /\ call[h].op = "_write" /\ call[h].verbose
    /\ call[h].pc = "idle" /\ call[h].err = "none"

-----------------------------------------------------------------------------
(* The framed protocol of one handle (SpecIO, SpecRead, SpecLive). *)

\* C5: a verbose _write sends its frame once, then only reads; it returns the
\* non-empty lines read before the first empty line, in the order of arrival,
\* without the empty line that ended the loop, and the empty list when the first
\* line read is empty.
C5_VerboseWriteReturnsLines ==
    \A h \in Handles :
        VerboseDone(h) =>
            LET log == call[h].log
                R == SubSeq(log, 2, Len(log))
                L == LinesRead(R)
            IN /\ Len(log) >= 2
               /\ log[1][1] = "write"
               /\ \A i \in 1..Len(R) : R[i][1] \in {"read", "timeout"}
               /\ EndsRead(log[Len(log)])
               /\ L # <<>>
               /\ L[Len(L)] = <<>>
               /\ \A n \in 1..(Len(L) - 1) : L[n] # <<>>
               /\ call[h].ret.kind = "list"
               /\ call[h].ret.lines = SubSeq(L, 1, Len(L) - 1)

\* C5 witness: a verbose _write has returned two lines.
C5_Witness ==
    \E h \in Handles : VerboseDone(h) /\ Len(call[h].ret.lines) = 2

\* A _read that has ended: every byte but the last is not a carriage return, the
\* last read(1) gave the carriage return or nothing, and the value is the text of
\* the bytes consumed (a byte that is not ASCII makes the decoding fail).
ReadReturnsText ==
    \A h \in Handles :
        call[h].op = "_read" /\ call[h].pc = "idle" =>
            LET log == call[h].log IN
            /\ log # <<>>
            /\ \A i \in 1..(Len(log) - 1) : log[i][1] = "read" /\ log[i][2] # <<CR>>
            /\ EndsRead(log[Len(log)])
            /\ IF IsAscii(Bytes(log))
               THEN /\ call[h].err = "none"
                    /\ call[h].ret.kind = "str"
                    /\ call[h].ret.line = TextOf(Bytes(log))
               ELSE call[h].err = "UnicodeDecodeError"
            /\ Bytes(log) = ExampleLine => call[h].ret.line = ExampleText

\* A pass of the loop of _read takes the one next byte off the connection, or
\* nothing when none is there, and the _read ends with the carriage return or
\* with the empty read.
ReadsByteByByte ==
    \A h \in Handles :
        call[h].op = "_read" /\ call[h].pc = "read" /\ call'[h] # call[h] =>
            LET k == handle[h].connection IN
            IF conns[k].rx = <<>>
            THEN /\ conns' = conns
                 /\ call'[h].pc = "idle"
                 /\ call'[h].log = Append(call[h].log, <<"timeout", <<>>>>)
            ELSE /\ conns'[k].rx = Tail(conns[k].rx)
                 /\ call'[h].log = Append(call[h].log, <<"read", <<Head(conns[k].rx)>>>>)
                 /\ call'[h].pc = "idle" <=> Head(conns[k].rx) = CR

\* C6: _read consumes one byte at a time and stops at the first carriage return or
\* at the first empty read, consuming nothing after the carriage return; it
\* returns the bytes consumed with the surrounding whitespace (the carriage
\* return included) trimmed and then every backspace removed, and the bytes of
\* "A +012.34 +005.67 Air" followed by a carriage return give that text.
C6_ReadLine ==
    /\ []ReadReturnsText
    /\ [][ReadsByteByByte]_vars

\* C6 witness: a _read has consumed the 22 bytes of the example and returned its
\* 21 characters.
C6_Witness ==
    \E h \in Handles :
        /\ call[h].op = "_read" /\ call[h].pc = "idle"
        /\ Bytes(call[h].log) = ExampleLine
        /\ call[h].ret.line = ExampleText

\* A _write writes at most once, and what it has written is its tag, its command
\* and a carriage return; without verbose the flush is the one call that follows,
\* and the call returns None.
OneFrameThenFlush ==
    \A h \in Handles :
        call[h].op = "_write" =>
            LET c == call[h]
                W == WritesOf(c.log)
            IN /\ Len(W) <= 1
               /\ c.pc # "write" /\ c.err = "none" =>
                      /\ W = << <<"write", handle[h].ID \o c.command \o <<13>>>> >>
                      /\ c.log[1] = W[1]
               /\ ~c.verbose => c.pc \in {"write", "flush", "idle"}
               /\ ~c.verbose /\ c.pc = "flush" => c.log = W
               /\ ~c.verbose /\ c.pc = "idle" /\ c.err = "none" =>
                      /\ c.log = W \o << <<"flush", <<>>>> >>
                      /\ c.ret = NoRet

\* The flush of a _write without verbose leaves nothing received on the connection.
FlushDiscards ==
    \A h \in Handles :
        /\ call[h].op = "_write" /\ call[h].pc = "flush"
        /\ call'[h].pc = "idle" /\ call'[h].err = "none"
        => conns'[handle[h].connection].rx = <<>>

\* C7: every command goes out as exactly one frame, the unit tag, the command text
\* and a carriage return; a _write without verbose flushes the buffers right
\* after the send, reads nothing and returns nothing.
C7_OneFrame ==
    /\ []OneFrameThenFlush
    /\ [][FlushDiscards]_vars

\* C7 witness: a display lock has been sent without verbose and has returned.
C7_Witness ==
    \E h \in Handles :
        /\ call[h].op = "_write" /\ ~call[h].verbose /\ call[h].command = Cmd_Lock
        /\ call[h].pc = "idle" /\ call[h].err = "none"
        /\ call[h].log = << <<"write", handle[h].ID \o Cmd_Lock \o <<13>>>>, <<"flush", <<>>>> >>

\* A _write whose frame is out and whose response is not yet read or flushed
InFlight(h) == call[h].op = "_write" /\ call[h].pc \in {"read", "flush"}

\* C8: of two handles on one port driven by concurrent threads, at most one has a
\* write+read sequence in flight, and no verbose _write returns a line that
\* answers a frame written before its own.
C8_MutualExclusion ==
    /\ \A h, g \in Handles :
          h # g /\ handle[h].connection = handle[g].connection
          => ~(InFlight(h) /\ InFlight(g))
    /\ \A h \in Handles : VerboseDone(h) => ~call[h].stale

\* C9: within one handle no verbose _write returns a line the device produced in
\* answer to an earlier frame, a fire-and-forget write included.
C9_NoStaleLines ==
    \A h \in Handles : VerboseDone(h) => ~call[h].stale

\* C10 as stated: in a verbose _write the first empty read(1) gives the empty
\* line that ends the loop.
C10_FirstTimeoutEndsLoop ==
    \A h \in Handles :
        call[h].op = "_write" /\ call[h].verbose =>
            \A i \in 1..Len(call[h].log) :
                call[h].log[i][1] = "timeout" => i = Len(call[h].log) /\ call[h].pc = "idle"

\* An empty read(1) of a verbose _write ends the loop when the line it cuts has no
\* text, and otherwise returns the cut line to the loop, which reads again.
TimeoutEndsLoopOnEmptyLine ==
    \A h \in Handles :
        call[h].op = "_write" /\ call[h].verbose =>
            LET log == call[h].log IN
            \A i \in 1..Len(log) :
                log[i][1] = "timeout" =>
                    IF LineEnding(SubSeq(log, 2, Len(log)), i - 1) = <<>>
                    THEN i = Len(log) /\ call[h].pc = "idle"
                    ELSE i < Len(log) \/ call[h].pc = "read"

\* C10: every read(1) returning, a _read and a verbose _write end, whatever the
\* device sends or fails to send; the loop of the verbose _write ends at the first
\* empty read(1) that finds no text accumulated, which is the first one or, when
\* the first one cuts a line short, the one after it.
C10_Terminates ==
    /\ \A h \in Handles : (call[h].pc # "idle") ~> (call[h].pc = "idle")
    /\ []TimeoutEndsLoopOnEmptyLine

\* C10 witness: a verbose _write has returned after an empty read(1) that cut a
\* line short and another that ended the loop.
C10_Witness ==
    \E h \in Handles :
        /\ VerboseDone(h)
        /\ \E i \in 1..(Len(call[h].log) - 1) : call[h].log[i][1] = "timeout"

-----------------------------------------------------------------------------
(* The settings operations of MassFlowMeter and MassFlowController: the     *)
(* packed-bit registers, the persistence flags and the wear counters.  An   *)
(* operation is one step; each of its _write calls is an exchange with the  *)
(* unit, whose answer has arrived before the call reads or flushes.         *)

\* n & m for m a power of two
AndBit(n, m) == m * ((n \div m) % 2)

\* n & 255
LowByte(n) == n % 256

StartsWith(s, pre) == Len(s) >= Len(pre) /\ SubSeq(s, 1, Len(pre)) = pre

\* '$$R', '$$W', '$$R17', '$$R18', '$$R19', '$$R20', '$$W=18', '$$W18=', '$$W19=',
\* '$$W20=', '$$W20', '$$G', 'S'
Cmd_R == <<36, 36, 82>>

Cmd_W == <<36, 36, 87>>

Cmd_R17 == <<36, 36, 82, 49, 55>>

Cmd_R18 == <<36, 36, 82, 49, 56>>

Cmd_R19 == <<36, 36, 82, 49, 57>>

Cmd_R20 == <<36, 36, 82, 50, 48>>

Cmd_W_18 == <<36, 36, 87, 61, 49, 56>>

Cmd_W18 == <<36, 36, 87, 49, 56, 61>>

Cmd_W19 == <<36, 36, 87, 49, 57, 61>>

Cmd_W20 == <<36, 36, 87, 50, 48, 61>>

Cmd_W20_ == <<36, 36, 87, 50, 48>>

Cmd_G == <<36, 36, 71>>

Cmd_S == <<83>>

\* The unit's answer to a register command: its tag, the address on three
\* digits, '=' and the value, as in "A 018 = 32768"
Pad3(n) == IF n < 10 THEN <<48, 48>> \o Digits(n) ELSE IF n < 100 THEN <<48>> \o Digits(n) ELSE Digits(n)

RegisterLine(ID, a, v) == ID \o <<SP>> \o Pad3(a) \o <<SP, 61, SP>> \o Digits(v) \o <<CR>>

\* The position of the first '=' of s, 0 when it has none
EqualsAt(s) ==
    LET at == {i \in 1..Len(s) : s[i] = 61} IN
    IF at = {} THEN 0 ELSE CHOOSE i \in at : \A j \in at : i <= j

\* The unit with tag ID and registers regs receives a frame: it answers
\* '$$R<addr>' with the register's line, takes '$$W<addr>=<value>' into the
\* register and answers with its line, and leaves its registers alone on
\* anything else.
Unit(regs, ID, frame) ==
    LET cmd == SubSeq(frame, Len(ID) + 1, Len(frame) - 1)
        arg == SubSeq(cmd, 4, Len(cmd))
        eq == EqualsAt(arg)
        addr == SubSeq(arg, 1, eq - 1)
        value == SubSeq(arg, eq + 1, Len(arg))
        quiet == [regs |-> regs, reply |-> <<>>]
    IN IF ~StartsWith(frame, ID) \/ frame[Len(frame)] # CR THEN quiet
       ELSE IF StartsWith(cmd, Cmd_R) /\ IsDigits(arg) /\ DigitsValue(arg) \in DOMAIN regs
       THEN [regs |-> regs, reply |-> RegisterLine(ID, DigitsValue(arg), regs[DigitsValue(arg)])]
       ELSE IF /\ StartsWith(cmd, Cmd_W) /\ eq > 1
               /\ IsDigits(addr) /\ IsDigits(value)
               /\ DigitsValue(addr) \in DOMAIN regs /\ DigitsValue(value) < 65536
       THEN [regs |-> [regs EXCEPT ![DigitsValue(addr)] = DigitsValue(value)],
             reply |-> RegisterLine(ID, DigitsValue(addr), DigitsValue(value))]
       ELSE quiet

\* The tag the unit answers to: the high byte of its register 17
UnitTag(regs) == <<regs[17] \div 256>>

\* What an operation works on: the unit's registers, self.variables, the frames
\* written so far, the exception raised and the last value read
Machine(h) ==
    [regs |-> device[handle[h].port].regs, variables |-> handle[h].variables,
     log |-> <<>>, err |-> "none", val |-> 0]

\* self._write(self.ID, command): the answer is flushed
WriteCommand(m, ID, command) ==
    IF m.err # "none" THEN m
    ELSE [m EXCEPT !.regs = Unit(m.regs, UnitTag(m.regs), Frame(ID, command)).regs,
                   !.log = Append(@, <<"write", Frame(ID, command)>>)]

\* int(self._write(self.ID, command, True)[0].split()[tok - 1]), the last token for tok = 0
ReadValue(m, ID, command, tok) ==
    IF m.err # "none" THEN m
    ELSE LET line == ReadResult(Unit(m.regs, UnitTag(m.regs), Frame(ID, command)).reply)
             toks == Split(line)
             sent == [m EXCEPT !.log = Append(@, <<"write", Frame(ID, command)>>)]
             t == IF tok = 0 THEN Len(toks) ELSE tok
         IN IF line = <<>> \/ t = 0 \/ t > Len(toks) THEN [sent EXCEPT !.err = "IndexError"]
            ELSE IF ~IsInt(toks[t]) THEN [sent EXCEPT !.err = "ValueError"]
            ELSE [sent EXCEPT !.val = IntValue(toks[t])]

\* The value for register 18 when the bit is added and taken without a test of it
EepromValueUntested(r18, setting, state) ==
    IF setting = "setpoint" THEN (IF state THEN r18 + 32768 ELSE r18 - 32768)
    ELSE IF setting = "gas" THEN (IF state THEN r18 - 2048 ELSE r18 + 2048)
    ELSE r18

\* The value _eeprom_saving computes for register 18
EepromValue(r18, setting, state) ==
    IF setting = "setpoint"
    THEN IF ~state /\ AndBit(r18, 32768) # 0 THEN r18 - 32768
         ELSE IF state /\ AndBit(r18, 32768) = 0 THEN r18 + 32768
         ELSE r18
    ELSE IF setting = "gas"
    THEN IF state /\ AndBit(r18, 2048) # 0 THEN r18 - 2048
         ELSE IF ~state /\ AndBit(r18, 2048) = 0 THEN r18 + 2048
         ELSE r18
    ELSE r18

\* The flags of _eeprom_saving(read=True) with the sense of bit 11 taken as that
\* of bit 15
ReadFlagsSameSense(m, ID) ==
    LET a == ReadValue(m, ID, Cmd_R18, 4) IN
    IF a.err # "none" THEN a
    ELSE [a EXCEPT !.variables.ram_only_setpoint = IF AndBit(a.val, 32768) # 0 THEN 0 ELSE 1,
                   !.variables.ram_only_gas = IF AndBit(a.val, 2048) # 0 THEN 0 ELSE 1]

\* _eeprom_saving(read=True): the flags as register 18 has them
ReadFlags(m, ID) ==
    LET a == ReadValue(m, ID, Cmd_R18, 4) IN
    IF a.err # "none" THEN a
    ELSE [a EXCEPT !.variables.ram_only_setpoint = IF AndBit(a.val, 32768) # 0 THEN 0 ELSE 1,
                   !.variables.ram_only_gas = IF AndBit(a.val, 2048) # 0 THEN 1 ELSE 0]

\* MassFlowMeter._eeprom_saving(read, setting, state)
_eeprom_saving(m, ID, read, setting, state) ==
    IF read THEN ReadFlags(m, ID)
    ELSE LET a == ReadValue(m, ID, Cmd_R18, 4)
             b == WriteCommand(a, ID, Cmd_W_18 \o IntStr(EepromValue(a.val, setting, state)))
         IN IF a.err # "none" THEN a ELSE ReadFlags(b, ID)

\* gas_ref: the short names and the indices of the gas table to the index ("0" and
\* "8" stand for the int keys 0 and 8), and reverse_gas_list
GasRef == [g \in {"Air", "N2", "0", "8"} |-> IF g \in {"Air", "0"} THEN 0 ELSE 8]

ReverseGas == [i \in {0, 8} |-> IF i = 0 THEN "Air" ELSE "N2"]

\* The gases set_gas is called with: the keys of the table, a name and an index
\* that are not in it
Gases == DOMAIN GasRef \cup {"Xe", "5"}

\* The counts of line 305 and line 452
GasLimit == 10000

SetpointLimit == 100000

\* set_gas counting the call before it compares the gases
set_gasCountsCalls(m, ID, gas) ==
    IF gas \notin DOMAIN GasRef THEN [m EXCEPT !.err = "KeyError"]
    ELSE IF GasRef[gas] = GasRef[m.variables.current_gas]
    THEN [m EXCEPT !.variables.gas_changes = @ + 1]
    ELSE LET a == WriteCommand(m, ID, Cmd_G \o IntStr(GasRef[gas]))
             b == [a EXCEPT !.variables.current_gas = ReverseGas[GasRef[gas]],
                            !.variables.gas_changes = @ + 1]
         IN IF b.variables.gas_changes > GasLimit /\ b.variables.ram_only_gas = 0
            THEN _eeprom_saving(b, ID, FALSE, "gas", FALSE)
            ELSE b

\* set_gas taking a gas that is not in the table for the current one
set_gasIgnoresUnknown(m, ID, gas) ==
    IF gas \notin DOMAIN GasRef \/ GasRef[gas] = GasRef[m.variables.current_gas] THEN m
    ELSE LET a == WriteCommand(m, ID, Cmd_G \o IntStr(GasRef[gas]))
             b == [a EXCEPT !.variables.current_gas = ReverseGas[GasRef[gas]],
                            !.variables.gas_changes = @ + 1]
         IN IF b.variables.gas_changes > GasLimit /\ b.variables.ram_only_gas = 0
            THEN _eeprom_saving(b, ID, FALSE, "gas", FALSE)
            ELSE b

\* MassFlowMeter.set_gas(gas): self.variables['gas_ref'][gas] of the test is a
\* KeyError for a gas that is no key of the table
set_gas(m, ID, gas) ==
    IF gas \notin DOMAIN GasRef THEN [m EXCEPT !.err = "KeyError"]
    ELSE IF GasRef[gas] = GasRef[m.variables.current_gas] THEN m
    ELSE LET a == WriteCommand(m, ID, Cmd_G \o IntStr(GasRef[gas]))
             b == [a EXCEPT !.variables.current_gas = ReverseGas[GasRef[gas]],
                            !.variables.gas_changes = @ + 1]
         IN IF b.variables.gas_changes > GasLimit /\ b.variables.ram_only_gas = 0
            THEN _eeprom_saving(b, ID, FALSE, "gas", FALSE)
            ELSE b

\* MassFlowController.set_setpoint(setpoint), the setpoint an int; fw is
\* self.firmware_version.  self.eeprom_saving is no attribute of the class.
set_setpoint(m, ID, fw, setpoint) ==
    LET text == IF fw = GP \/ fw < 6
                THEN IntStr((64000 * setpoint) \div m.variables.fullscale)
                ELSE IntStr(setpoint)
        a == WriteCommand(m, ID, IF fw = GP \/ fw < 6 THEN text ELSE Cmd_S \o text)
        b == [a EXCEPT !.variables.setpoint = text, !.variables.setpoint_changes = @ + 1]
    IN IF b.variables.setpoint_changes > SetpointLimit /\ b.variables.ram_only_setpoint = 0
       THEN [b EXCEPT !.err = "AttributeError"]
       ELSE b

\* loop of change_control_var, and self.variables['scales'] of a unit whose full
\* scales are 100, 200 and 160
LoopBits == [v \in {"mass", "volume", "volumetric", "pressure"} |->
               IF v = "mass" THEN 1024 ELSE IF v = "pressure" THEN 256 ELSE 768]

Scales == [v \in {"mass", "volume", "volumetric", "pressure"} |->
             IF v = "mass" THEN 100 ELSE IF v = "pressure" THEN 160 ELSE 200]

\* The variable change_control_var reads out of register 20, tests in another order
DecodeVarLowBitFirst(reg) ==
    IF AndBit(reg, 256) # 0 THEN 256
    ELSE IF AndBit(reg, 1024) # 0 THEN 1024
    ELSE 768

\* The variable change_control_var reads out of register 20
DecodeVar(reg) ==
    IF AndBit(reg, 1024) # 0 THEN 1024
    ELSE IF AndBit(reg, 512) # 0 /\ AndBit(reg, 256) # 0 THEN 768
    ELSE 256

\* reg = reg - var + loop[variable]
SwitchValue(reg, variable) == reg - DecodeVar(reg) + LoopBits[variable]

\* change_control_var writing register 20 whether or not the variable changes
change_control_varAlwaysWrites(m, ID, variable, read) ==
    LET a == ReadValue(m, ID, Cmd_R20, 4)
        b == IF ~read
             THEN WriteCommand(a, ID, Cmd_W20 \o IntStr(SwitchValue(a.val, variable)))
             ELSE a
    IN IF a.err # "none" THEN a
       ELSE [b EXCEPT !.variables.control_variable = LoopBits[variable],
                      !.variables.fullscale = Scales[variable]]

\* MassFlowController.change_control_var(variable, read)
change_control_var(m, ID, variable, read) ==
    LET a == ReadValue(m, ID, Cmd_R20, 4)
        b == IF ~read /\ DecodeVar(a.val) # LoopBits[variable]
             THEN WriteCommand(a, ID, Cmd_W20 \o IntStr(SwitchValue(a.val, variable)))
             ELSE a
    IN IF a.err # "none" THEN a
       ELSE [b EXCEPT !.variables.control_variable = LoopBits[variable],
                      !.variables.fullscale = Scales[variable]]

\* r20 + 8192 - (r20 & 8192) and r20 - (r20 & 8192)
AutotareOn(r20) == r20 + 8192 - AndBit(r20, 8192)

AutotareOff(r20) == r20 - AndBit(r20, 8192)

\* r - (r & 255) + delay
WithLowByte(r, delay) == r - LowByte(r) + delay

\* MassFlowController.set_autotare(delay)
set_autotare(m, ID, delay) ==
    LET a == ReadValue(m, ID, Cmd_R18, 4)
        b == WriteCommand(a, ID, Cmd_W18 \o IntStr(WithLowByte(a.val, delay)))
        c == ReadValue(b, ID, Cmd_R19, 4)
        d == ReadValue(c, ID, Cmd_R20, 4)
    IN IF d.err # "none" \/ c.err # "none" \/ a.err # "none" THEN d
       ELSE IF delay > 0
       THEN WriteCommand(WriteCommand(d, ID, Cmd_W20 \o IntStr(AutotareOn(d.val))),
                         ID, Cmd_W19 \o IntStr(WithLowByte(c.val, delay)))
       ELSE WriteCommand(d, ID, Cmd_W20_ \o IntStr(AutotareOff(d.val)))

\* An operation called on an idle handle has run: what it did to the unit and to
\* self.variables, and the frames it wrote
Ran(h, name, args, m) ==
    /\ device' = [device EXCEPT ![handle[h].port].regs = m.regs]
    /\ handle' = [handle EXCEPT ![h].variables = m.variables]
    /\ call' = Start(h, [Begin(name) EXCEPT !.args = args, !.log = m.log, !.err = m.err])
    /\ UNCHANGED <<open_ports, conns, env>>

\* Changes of a counter one run follows
MaxChanges == 3

Eeprom_saving(h, read, setting, state) ==
    /\ CanCall(h)
    /\ Ran(h, "_eeprom_saving", <<read, setting, state>>,
           _eeprom_saving(Machine(h), handle[h].ID, read, setting, state))

Set_gas(h, gas) ==
    /\ CanCall(h)
    /\ handle[h].variables.gas_changes < env.gas_changes + MaxChanges
    /\ Ran(h, "set_gas", <<gas>>, set_gas(Machine(h), handle[h].ID, gas))

Set_setpoint(h, setpoint) ==
    /\ CanCall(h)
    /\ handle[h].variables.setpoint_changes < env.setpoint_changes + MaxChanges
    /\ Ran(h, "set_setpoint", <<setpoint>>,
           set_setpoint(Machine(h), handle[h].ID, handle[h].firmware_version, setpoint))

Change_control_var(h, variable, read) ==
    /\ CanCall(h)
    /\ Ran(h, "change_control_var", <<variable, read>>,
           change_control_var(Machine(h), handle[h].ID, variable, read))

Set_autotare(h, delay) ==
    /\ CanCall(h)
    /\ Ran(h, "set_autotare", <<delay>>, set_autotare(Machine(h), handle[h].ID, delay))

\* str.upper() of a tag
Upper(s) == [i \in 1..Len(s) |-> IF s[i] \in 97..122 THEN s[i] - 32 ELSE s[i]]

\* change_id that takes the new tag whether or not the unit was reached
change_idAlwaysRenames(m, ID, newid) ==
    IF Upper(newid) = ID THEN [m |-> m, ID |-> ID]
    ELSE IF Len(newid) # 1 THEN [m |-> [m EXCEPT !.err = "TypeError"], ID |-> ID]
    ELSE LET a == ReadValue(m, ID, Cmd_R17, 0)
             reg == a.val + 256 * Ord(Upper(newid)) - 256 * Ord(Upper(ID))
         IN [m |-> WriteCommand(a, ID, Cmd_W17 \o IntStr(reg)), ID |-> Upper(newid)]

\* MassFlowMeter.change_id(newid): what it does to the unit, and self.ID after it;
\* ord() of a string that is not one character is a TypeError, before the read
change_id(m, ID, newid) ==
    IF Upper(newid) = ID THEN [m |-> m, ID |-> ID]
    ELSE IF Len(newid) # 1 THEN [m |-> [m EXCEPT !.err = "TypeError"], ID |-> ID]
    ELSE LET a == ReadValue(m, ID, Cmd_R17, 0)
             reg == a.val + 256 * Ord(Upper(newid)) - 256 * Ord(Upper(ID))
             b == WriteCommand(a, ID, Cmd_W17 \o IntStr(reg))
         IN [m |-> b, ID |-> IF b.err = "none" THEN Upper(newid) ELSE ID]

Change_id(h, newid) ==
    /\ CanCall(h)
    /\ LET r == change_id(Machine(h), handle[h].ID, newid) IN
       /\ device' = [device EXCEPT ![handle[h].port].regs = r.m.regs]
       /\ handle' = [handle EXCEPT ![h].ID = r.ID]
       /\ call' = Start(h, [Begin("change_id") EXCEPT !.args = <<newid>>, !.log = r.m.log,
                                                      !.err = r.m.err])
    /\ UNCHANGED <<open_ports, conns, env>>

\* Register 18 of the unit at the start: nothing set, gas saving off with a low
\* byte, setpoint saving on, both.  Register 19: a high and a low byte.
\* Register 20: mass, volumetric with autotare on and low bits, pressure with
\* the top bit.
Registers18 == {0, 2053, 32768, 34816}

Registers19 == {513}

Registers20 == {1024, 8963, 33024}

Setpoints == {50}

Delays == {0, 5}

\* One controller constructed on ttyUSB0, its unit's registers drawn from R18, R19
\* and R20 and its counters from GC and SC.  Without a config file the flags are
\* as _eeprom_saving(read=True) set them in __init__; with one they are as the
\* file has them, saved when register 18 was 0.  The control variable is as
\* change_control_var(read=True) set it.
InitUnit(R18, R19, R20, GC, SC) ==
    \E h \in Handles, r18 \in R18, r19 \in R19, r20 \in R20, gc \in GC, sc \in SC,
       config \in BOOLEAN :
        /\ open_ports = [p \in Ports |-> IF p = "ttyUSB0" THEN 1 ELSE NoConn]
        /\ conns = <<NewConn("ttyUSB0", 19200)>>
        /\ device = [NoDevice EXCEPT !["ttyUSB0"].regs =
                        [a \in {17, 18, 19, 20} |->
                            IF a = 18 THEN r18 ELSE IF a = 19 THEN r19 ELSE IF a = 20 THEN r20
                            ELSE 256 * Ord(TagOf[h]) + 2]]
        /\ handle = [g \in Handles |->
                       IF g = h
                       THEN [exists |-> TRUE, port |-> "ttyUSB0", baud |-> 19200, connection |-> 1,
                             open |-> TRUE, ID |-> TagOf[h], firmware_version |-> FirmwareOf[h],
                             class |-> "MassFlowController",
                             variables |->
                                [NoVariables EXCEPT
                                    !.gas_changes = gc, !.setpoint_changes = sc,
                                    !.ram_only_setpoint =
                                        IF ~config /\ AndBit(r18, 32768) # 0 THEN 0 ELSE 1,
                                    !.ram_only_gas =
                                        IF ~config /\ AndBit(r18, 2048) # 0 THEN 1 ELSE 0,
                                    !.control_variable = LoopBits["mass"],
                                    !.fullscale = Scales["mass"]]]
                       ELSE NoHandle]
        /\ call = [g \in Handles |-> Idle]
        /\ env = [replies |-> {<<>>}, prompt |-> TRUE, threads |-> FALSE,
                  gas_changes |-> gc, setpoint_changes |-> sc]

\* The operations on the packed-bit registers, on a new handle
InitReg == InitUnit(Registers18, Registers19, Registers20, {0}, {0})

NextReg ==
    \/ \E h \in Handles, read \in BOOLEAN, setting \in {"setpoint", "gas"}, state \in BOOLEAN :
          Eeprom_saving(h, read, setting, state)
    \/ \E h \in Handles, variable \in DOMAIN LoopBits, read \in BOOLEAN :
          Change_control_var(h, variable, read)
    \/ \E h \in Handles, delay \in Delays : Set_autotare(h, delay)

SpecReg == InitReg /\ [][NextReg]_vars

\* The gas and setpoint changes and what they do to the persistence flags, on a
\* handle that has made no change or as many as the limit less one
InitWear == InitUnit(Registers18, {0}, {1024}, {0, GasLimit - 1}, {0, SetpointLimit - 1})

NextWear ==
    \/ \E h \in Handles, gas \in Gases : Set_gas(h, gas)
    \/ \E h \in Handles, setpoint \in Setpoints : Set_setpoint(h, setpoint)
    \/ \E h \in Handles, setting \in {"setpoint", "gas"} :
          Eeprom_saving(h, FALSE, setting, FALSE)

SpecWear == InitWear /\ [][NextWear]_vars

\* MassFlowController.powerup_setpoint(setpoint): the bit of register 18 is
\* added when the handle remembers the setpoint as RAM-only, and taken away at
\* the end in any case
powerup_setpoint(m, ID, fw, setpoint) ==
    LET a == ReadValue(m, ID, Cmd_R18, 4)
        ram_only == a.variables.ram_only_setpoint # 0
        r18 == IF ram_only THEN a.val + 32768 ELSE a.val
        b == IF ram_only THEN WriteCommand(a, ID, Cmd_W18 \o IntStr(r18)) ELSE a
        c == set_setpoint(b, ID, fw, setpoint)
    IN WriteCommand(c, ID, Cmd_W18 \o IntStr(r18 - 32768))

Powerup_setpoint(h, setpoint) ==
    /\ CanCall(h)
    /\ handle[h].variables.setpoint_changes < env.setpoint_changes + MaxChanges
    /\ Ran(h, "powerup_setpoint", <<setpoint>>,
           powerup_setpoint(Machine(h), handle[h].ID, handle[h].firmware_version, setpoint))

\* The power-up setpoint among the settings operations, on a new handle
InitPower == InitUnit(Registers18, {0}, {1024}, {0}, {0})

NextPower ==
    \/ \E h \in Handles, setpoint \in Setpoints : Powerup_setpoint(h, setpoint)
    \/ \E h \in Handles, setpoint \in Setpoints : Set_setpoint(h, setpoint)
    \/ \E h \in Handles, read \in BOOLEAN, setting \in {"setpoint", "gas"}, state \in BOOLEAN :
          Eeprom_saving(h, read, setting, state)

SpecPower == InitPower /\ [][NextPower]_vars

\* The tags a handle is constructed with or renamed to, the unit's own tags
\* and the baud codes in the low byte of its register 17 (2 on a legacy unit,
\* 240 + 2 on the others)
Tags == {<<65>>, <<66>>, <<67>>}

NewTags == Tags \cup {<<98>>, <<53>>, <<65, 66>>}

LowBytes17 == {2, 242}

\* One meter constructed from a config file with tag ID on ttyUSB0, where a
\* unit with a tag of its own listens
InitId ==
    \E h \in Handles, ID \in Tags, unit \in Tags, low \in LowBytes17 :
        /\ open_ports = [p \in Ports |-> IF p = "ttyUSB0" THEN 1 ELSE NoConn]
        /\ conns = <<NewConn("ttyUSB0", 19200)>>
        /\ device = [NoDevice EXCEPT !["ttyUSB0"].regs[17] = 256 * Ord(unit) + low]
        /\ handle = [g \in Handles |->
                       IF g = h
                       THEN [NoHandle EXCEPT !.exists = TRUE, !.connection = 1, !.open = TRUE,
                                             !.ID = ID, !.firmware_version = FirmwareOf[h]]
                       ELSE NoHandle]
        /\ call = [g \in Handles |-> Idle]
        /\ env = [replies |-> {<<>>}, prompt |-> TRUE, threads |-> FALSE]

NextId == \E h \in Handles, newid \in NewTags : Change_id(h, newid)

SpecId == InitId /\ [][NextId]_vars

-----------------------------------------------------------------------------
(* The settings registers. *)

\* The handle's only one in the specifications of one controller
TheHandle == CHOOSE h \in Handles : handle[h].exists

\* Position i of log writes the frame of command, and an earlier position
\* wrote the frame of the read command rd
ReadBefore(log, i, ID, rd) ==
    \E j \in 1..(i - 1) : log[j] = <<"write", Frame(ID, rd)>>

\* The write and the read command of each settings register an operation of the
\* model writes
RegisterCommands ==
    {<<Cmd_W17, Cmd_R17>>, <<Cmd_W87, Cmd_R87>>, <<Cmd_W18, Cmd_R18>>,
     <<Cmd_W19, Cmd_R19>>, <<Cmd_W20, Cmd_R20>>}

\* C11: every write of a settings register by an operation comes after a read
\* of that same register in the same operation, never blind.
C11_ReadModifyWrite ==
    \A h \in Handles : \A i \in 1..Len(call[h].log) : \A rw \in RegisterCommands :
        (/\ call[h].log[i][1] = "write"
         /\ StartsWith(call[h].log[i][2], handle[h].ID \o rw[1]))
        => ReadBefore(call[h].log, i, handle[h].ID, rw[2])

\* v with the bit set when on, cleared when not, and nothing else changed
WithBit(v, bit, on) == v - AndBit(v, bit) + (IF on THEN bit ELSE 0)

\* The flags a handle caches are those of the value v of register 18
FlagsOf(h, v) ==
    /\ handle[h].variables.ram_only_setpoint = (IF AndBit(v, 32768) # 0 THEN 0 ELSE 1)
    /\ handle[h].variables.ram_only_gas = (IF AndBit(v, 2048) # 0 THEN 1 ELSE 0)

\* C12: a non-read _eeprom_saving that does not fail reads register 18 with
\* '$$R18', changes only the bit of its setting (bit 15 for 'setpoint', set when
\* state is true; bit 11 for 'gas', cleared when state is true) and writes the
\* result with '$$W18=<value>', after which the unit's register 18 holds that
\* value and the cached flags are those of it.
C12_EepromWritesBack ==
    [][\A h \in Handles :
        (call'[h].op = "_eeprom_saving" /\ ~call'[h].args[1] /\ call'[h].err = "none")
        => LET r18 == device[handle[h].port].regs[18]
               new == IF call'[h].args[2] = "setpoint"
                      THEN WithBit(r18, 32768, call'[h].args[3])
                      ELSE WithBit(r18, 2048, ~call'[h].args[3])
           IN /\ Len(call'[h].log) >= 2
              /\ call'[h].log[1] = <<"write", Frame(handle[h].ID, Cmd_R18)>>
              /\ call'[h].log[2] = <<"write", Frame(handle[h].ID, Cmd_W18 \o Digits(new))>>
              /\ device'[handle[h].port].regs[18] = new
              /\ FlagsOf(h, new)']_vars

\* C13: _eeprom_saving(read=True) sends exactly one '$$R18' and no write, sets
\* ram_only_setpoint to whether bit 15 of the answer is clear and ram_only_gas
\* to whether bit 11 is set, and changes nothing else of the handle or the unit.
C13_EepromReadOnly ==
    [][\A h \in Handles :
        (call'[h].op = "_eeprom_saving" /\ call'[h].args[1])
        => LET r18 == device[handle[h].port].regs[18] IN
           /\ call'[h].err = "none"
           /\ call'[h].log = << <<"write", Frame(handle[h].ID, Cmd_R18)>> >>
           /\ handle' = [handle EXCEPT
                  ![h].variables.ram_only_setpoint = IF AndBit(r18, 32768) = 0 THEN 1 ELSE 0,
                  ![h].variables.ram_only_gas = IF AndBit(r18, 2048) # 0 THEN 1 ELSE 0]
           /\ UNCHANGED <<device, open_ports, conns>>]_vars

\* The flags were read from a register 18 with both bits set
C13_Witness ==
    \E h \in Handles :
        /\ call[h].op = "_eeprom_saving" /\ call[h].args[1]
        /\ Len(call[h].log) = 1
        /\ AndBit(device[handle[h].port].regs[18], 32768) # 0
        /\ AndBit(device[handle[h].port].regs[18], 2048) # 0
        /\ handle[h].variables.ram_only_setpoint = 0
        /\ handle[h].variables.ram_only_gas = 1

\* Register 18 after its setting's bit is set and then cleared by _eeprom_saving:
\* bit 15 is set by state true, bit 11 by state false
SetThenClear18(v, setting) ==
    IF setting = "setpoint"
    THEN EepromValue(EepromValue(v, "setpoint", TRUE), "setpoint", FALSE)
    ELSE EepromValue(EepromValue(v, "gas", FALSE), "gas", TRUE)

\* Register 20 after bit 13 is set and then cleared by set_autotare
SetThenClear20(v) == AutotareOff(AutotareOn(v))

\* C14: for every value of a settings register and each setting bit (bit 15 and
\* bit 11 of register 18, bit 13 of register 20), setting the bit and then
\* clearing it yields exactly the value it started from.
C14_RoundTrip ==
    \A h \in Handles : handle[h].exists =>
        LET r18 == device[handle[h].port].regs[18]
            r20 == device[handle[h].port].regs[20]
        IN /\ SetThenClear18(r18, "setpoint") = r18
           /\ SetThenClear18(r18, "gas") = r18
           /\ SetThenClear20(r20) = r20

\* C14, amended: setting the bit and then clearing it yields the value with
\* that bit cleared and every other bit as it was, which is the value it
\* started from exactly when the bit was clear in it.
C14_RoundTripClears ==
    \A h \in Handles : handle[h].exists =>
        LET r18 == device[handle[h].port].regs[18]
            r20 == device[handle[h].port].regs[20]
        IN /\ SetThenClear18(r18, "setpoint") = r18 - AndBit(r18, 32768)
           /\ SetThenClear18(r18, "gas") = r18 - AndBit(r18, 2048)
           /\ SetThenClear20(r20) = r20 - AndBit(r20, 8192)
           /\ (SetThenClear18(r18, "setpoint") = r18) <=> (AndBit(r18, 32768) = 0)
           /\ (SetThenClear18(r18, "gas") = r18) <=> (AndBit(r18, 2048) = 0)
           /\ (SetThenClear20(r20) = r20) <=> (AndBit(r20, 8192) = 0)

\* _eeprom_saving has computed the value for a register 18 with bit 15 clear
\* and other bits set, which setting bit 15 changes and clearing it restores,
\* beside a register 20 with bit 13 set
C14_Witness ==
    \E h \in Handles :
        LET r18 == device[handle[h].port].regs[18]
            r20 == device[handle[h].port].regs[20]
        IN /\ handle[h].exists
           /\ call[h].op = "_eeprom_saving" /\ call[h].args = <<FALSE, "setpoint", TRUE>>
           /\ AndBit(r18, 32768) = 0 /\ r18 # 0
           /\ EepromValue(r18, "setpoint", TRUE) = r18 + 32768
           /\ SetThenClear18(r18, "setpoint") = r18
           /\ AndBit(r20, 8192) # 0
           /\ SetThenClear20(r20) # r20

\* Bits 8..10 of a register 20 value, and the pattern of each control variable:
\* bit 10 for mass, bits 9 and 8 for volumetric, bit 8 alone for pressure
Bits8to10(v) == (v \div 256) % 8

PatternOf(variable) ==
    IF variable = "mass" THEN 4
    ELSE IF variable \in {"volume", "volumetric"} THEN 3
    ELSE 1

\* C15: when register 20 holds exactly one of the three patterns in bits 8..10,
\* the value change_control_var writes for a target has exactly the target's
\* pattern in bits 8..10 and equals the old value in every other bit.
C15_SwitchKeepsOtherBits ==
    [][\A h \in Handles :
        (/\ call'[h].op = "change_control_var" /\ ~call'[h].args[2]
         /\ Bits8to10(device[handle[h].port].regs[20]) \in {4, 3, 1})
        => LET old == device[handle[h].port].regs[20]
               new == device'[handle[h].port].regs[20]
               target == call'[h].args[1]
           IN /\ Bits8to10(new) = PatternOf(target)
              /\ new % 256 = old % 256
              /\ new \div 2048 = old \div 2048
              /\ \A i \in 1..Len(call'[h].log) :
                    StartsWith(call'[h].log[i][2], handle[h].ID \o Cmd_W20)
                    => call'[h].log[i][2] = Frame(handle[h].ID, Cmd_W20 \o Digits(new))]_vars

\* The variable was switched from volumetric, with bit 13 and low bits set, to
\* pressure
C15_Witness ==
    \E h \in Handles :
        /\ call[h].op = "change_control_var" /\ call[h].args = <<"pressure", FALSE>>
        /\ Len(call[h].log) = 2
        /\ device[handle[h].port].regs[20] = 8451

\* C16: change_control_var(variable) with read false sends '$$W20=' exactly
\* when the variable decoded from register 20 differs from the target, and in
\* both cases sets the control variable to the target and the active full scale
\* to the target's entry of the full-scale table.
C16_WritesOnlyOnChange ==
    [][\A h \in Handles :
        (call'[h].op = "change_control_var" /\ ~call'[h].args[2] /\ call'[h].err = "none")
        => LET old == device[handle[h].port].regs[20]
               decoded == IF AndBit(old, 1024) # 0 THEN 4
                          ELSE IF AndBit(old, 512) # 0 /\ AndBit(old, 256) # 0 THEN 3
                          ELSE 1
               target == call'[h].args[1]
               sent == WritesOf(call'[h].log)
           IN /\ Len(sent) >= 1 /\ sent[1][2] = Frame(handle[h].ID, Cmd_R20)
              /\ IF decoded # PatternOf(target)
                 THEN Len(sent) = 2 /\ StartsWith(sent[2][2], handle[h].ID \o Cmd_W20)
                 ELSE Len(sent) = 1
              /\ handle'[h].variables.control_variable = 256 * PatternOf(target)
              /\ handle'[h].variables.fullscale = Scales[target]]_vars

\* The variable was set to the one register 20 already has: no write, and
\* the control variable and the full scale are the target's
C16_Witness ==
    \E h \in Handles :
        /\ call[h].op = "change_control_var" /\ call[h].args = <<"pressure", FALSE>>
        /\ Len(call[h].log) = 1
        /\ handle[h].variables.control_variable = 256
        /\ handle[h].variables.fullscale = Scales["pressure"]

\* C17: set_autotare(delay) that does not fail: with delay zero, register 20 is
\* rewritten with bit 13 (8192) cleared and its other bits unchanged; with a
\* positive delay, register 20 is rewritten with bit 13 set and register 19
\* with its low byte equal to the delay and its high byte unchanged.
C17_AutotareRegisters ==
    [][\A h \in Handles :
        (call'[h].op = "set_autotare" /\ call'[h].err = "none")
        => LET delay == call'[h].args[1]
               r19 == device[handle[h].port].regs[19]
               r20 == device[handle[h].port].regs[20]
               sent == {call'[h].log[i][2] : i \in 1..Len(call'[h].log)}
           IN IF delay = 0
              THEN /\ Frame(handle[h].ID, Cmd_W20 \o Digits(WithBit(r20, 8192, FALSE))) \in sent
                   /\ device'[handle[h].port].regs[20] = WithBit(r20, 8192, FALSE)
              ELSE /\ Frame(handle[h].ID, Cmd_W20 \o Digits(WithBit(r20, 8192, TRUE))) \in sent
                   /\ device'[handle[h].port].regs[20] = WithBit(r20, 8192, TRUE)
                   /\ device'[handle[h].port].regs[19] % 256 = delay
                   /\ device'[handle[h].port].regs[19] \div 256 = r19 \div 256]_vars

\* C18: a gas change sent while gas saving is not RAM-only also disables gas
\* persistence exactly when it takes the counter over 10,000, and it does so
\* once: after it bit 11 of register 18 is set and the cached flag is RAM-only,
\* so that no later gas change disables it again.
C18_GasWearLeveling ==
    [][\A h \in Handles :
        (/\ call'[h].op = "set_gas" /\ call'[h].err = "none"
         /\ handle'[h].variables.gas_changes = handle[h].variables.gas_changes + 1
         /\ handle[h].variables.ram_only_gas = 0)
        => LET disables == \E i \in 1..Len(call'[h].log) :
                              StartsWith(call'[h].log[i][2], handle[h].ID \o Cmd_W)
           IN /\ disables <=> (handle'[h].variables.gas_changes > 10000)
              /\ disables => /\ handle'[h].variables.ram_only_gas = 1
                             /\ AndBit(device'[handle[h].port].regs[18], 2048) # 0]_vars

\* C19: a set_setpoint that takes the counter over 100,000 while setpoint saving
\* is not RAM-only sends the setpoint and does not fail, and after it setpoint
\* persistence is disabled: bit 15 of register 18 is clear and the cached flag
\* is RAM-only.
C19_SetpointWearLeveling ==
    [][\A h \in Handles :
        (/\ call'[h].op = "set_setpoint"
         /\ handle'[h].variables.setpoint_changes > 100000
         /\ handle[h].variables.ram_only_setpoint = 0)
        => /\ Len(call'[h].log) >= 1
           /\ call'[h].err = "none"
           /\ handle'[h].variables.ram_only_setpoint = 1
           /\ AndBit(device'[handle[h].port].regs[18], 32768) = 0]_vars

\* C20: neither counter ever decreases; gas_changes grows by one in each
\* set_gas that sends a gas command, which it does exactly when the requested
\* gas is in the table and is not the current one, and by nothing otherwise; setpoint_changes grows
\* by one in each set_setpoint, which always sends, and by nothing otherwise.
C20_CountersCountSends ==
    [][\A h \in Handles :
        LET v == handle[h].variables
            w == handle'[h].variables
            sends == \E i \in 1..Len(call'[h].log) :
                        StartsWith(call'[h].log[i][2], handle[h].ID \o Cmd_G)
        IN /\ w.gas_changes >= v.gas_changes
           /\ w.setpoint_changes >= v.setpoint_changes
           /\ call'[h].op = "set_gas"
              => /\ sends <=> /\ call'[h].args[1] \in DOMAIN GasRef
                               /\ GasRef[call'[h].args[1]] # GasRef[v.current_gas]
                 /\ w.gas_changes = v.gas_changes + (IF sends THEN 1 ELSE 0)
                 /\ w.setpoint_changes = v.setpoint_changes
           /\ call'[h].op = "set_setpoint"
              => /\ Len(call'[h].log) >= 1
                 /\ w.setpoint_changes = v.setpoint_changes + 1
                 /\ w.gas_changes = v.gas_changes
           /\ call'[h].op \notin {"set_gas", "set_setpoint"}
              => /\ w.gas_changes = v.gas_changes
                 /\ w.setpoint_changes = v.setpoint_changes]_vars

\* A second gas change was sent and counted, and a setpoint before it
C20_Witness ==
    \E h \in Handles :
        /\ call[h].op = "set_gas" /\ Len(call[h].log) >= 1
        /\ handle[h].variables.gas_changes = env.gas_changes + 2
        /\ handle[h].variables.setpoint_changes = env.setpoint_changes + 1

\* C21: change_id(newid) with a tag other than the current one reads register
\* 17 and writes it back with the high byte replaced by the new tag's code and
\* the low byte unchanged, both frames addressed to the old tag, and the handle
\* takes the new tag after the write; when the read or the write fails the
\* handle's tag is unchanged, and when newid is the current tag nothing is sent.
C21_ChangeId ==
    [][\A h \in Handles :
        call'[h].op = "change_id"
        => LET old == handle[h].ID
               new == Upper(call'[h].args[1])
               r17 == device[handle[h].port].regs[17]
               sent == call'[h].log
           IN IF new = old
              THEN sent = <<>> /\ call'[h].err = "none" /\ UNCHANGED <<handle, device>>
              ELSE IF call'[h].err = "none"
              THEN /\ sent = << <<"write", Frame(old, Cmd_R17)>>,
                               <<"write", Frame(old, Cmd_W17 \o Digits(256 * new[1] + (r17 % 256)))>> >>
                   /\ device'[handle[h].port].regs[17] = 256 * new[1] + (r17 % 256)
                   /\ handle'[h].ID = new
              ELSE /\ handle'[h].ID = old
                   /\ UNCHANGED device
                   /\ \A i \in 1..Len(sent) : ~StartsWith(sent[i][2], old \o Cmd_W17)]_vars

\* The handle was renamed from A to B, given in lower case, and the unit with it
C21_Witness ==
    \E h \in Handles :
        /\ call[h].op = "change_id" /\ call[h].args = <<(<<98>>)>> /\ call[h].err = "none"
        /\ Len(call[h].log) = 2 /\ call[h].log[1][2] = Frame(<<65>>, Cmd_R17)
        /\ handle[h].ID = <<66>>
        /\ device[handle[h].port].regs[17] = 256 * 66 + 242

\* A rename failed on a unit that does not answer to the handle's tag
C21_WitnessFails ==
    \E h \in Handles :
        /\ call[h].op = "change_id" /\ call[h].err # "none"
        /\ handle[h].ID # UnitTag(device[handle[h].port].regs)

-----------------------------------------------------------------------------
(* change_baud (Spec). *)

\* The frames of the call of h that read or write register 87
Touches87(h) ==
    {i \in 1..Len(call[h].log) :
        /\ call[h].log[i][1] = "write"
        /\ \/ StartsWith(call[h].log[i][2], handle[h].ID \o Cmd_R87)
           \/ StartsWith(call[h].log[i][2], handle[h].ID \o Cmd_W87)}

\* C22: change_baud on a legacy (GP) unit uses the table of the four rates
\* 2400, 9600, 19200 and 38400: a rate outside it fails before anything is
\* sent, a rate in it is written to register 17 as 256 x the tag's code plus
\* the rate's entry, and for no rate is register 87 read or written.
C22_LegacyBaudTable ==
    \A h \in Handles :
        (handle[h].exists /\ handle[h].firmware_version = GP /\ call[h].op = "change_baud")
        => LET sent == WritesOf(call[h].log)
               code == CASE call[h].newbaud = 2400 -> 0 [] call[h].newbaud = 9600 -> 1
                         [] call[h].newbaud = 19200 -> 2 [] call[h].newbaud = 38400 -> 3
                         [] OTHER -> -1
           IN /\ Touches87(h) = {}
              /\ code = -1 => call[h].pc = "idle" /\ call[h].err = "KeyError" /\ call[h].log = <<>>
              /\ sent # <<>> =>
                    sent[1][2] = Frame(handle[h].ID, Cmd_W17 \o Digits(256 * handle[h].ID[1] + code))

\* A legacy unit was set to 38400 baud by one write of register 17
C22_Witness ==
    \E h \in Handles :
        /\ handle[h].exists /\ handle[h].firmware_version = GP
        /\ call[h].op = "change_baud" /\ call[h].pc = "idle" /\ call[h].err = "none"
        /\ call[h].newbaud = 38400 /\ handle[h].baud = 38400
        /\ Len(WritesOf(call[h].log)) = 1

\* A legacy unit was asked for 57600 baud
C22_WitnessOutside ==
    \E h \in Handles :
        /\ handle[h].exists /\ handle[h].firmware_version = GP
        /\ call[h].op = "change_baud" /\ call[h].newbaud = 57600 /\ call[h].err = "KeyError"

\* C23: change_baud on a versioned unit reads register 87 and writes it back
\* with bit 1 set only when the rate asked for is 57600 or 115200; for 2400,
\* 9600, 19200 and 38400 register 87 is neither read nor written.
C23_Register87OnlyForFastRates ==
    \A h \in Handles :
        (handle[h].exists /\ handle[h].firmware_version # GP /\ call[h].op = "change_baud")
        => (Touches87(h) # {} => call[h].newbaud \in {57600, 115200})

\* The positions of the events of kind ev in log
EventsAt(log, ev) == {i \in 1..Len(log) : log[i][1] = ev}

\* A change_baud of h to another rate has ended without an exception: its
\* events are the write of register 17, later the flush and the close of the
\* old connection and last the opening of one at the new rate, and the handle
\* is open on that connection, which is the one registered for its port.
BaudChanged(h) ==
    LET log == call[h].log
        n == Len(log)
        k == handle[h].connection
    IN /\ n >= 4
       /\ log[n][1] = "open" /\ log[n][2] = <<k, call[h].newbaud>>
       /\ log[n - 1][1] = "close" /\ log[n - 1][2] # <<k>>
       /\ ~conns[log[n - 1][2][1]].is_open
       /\ log[n - 2][1] = "flush"
       /\ EventsAt(log, "open") = {n} /\ EventsAt(log, "close") = {n - 1}
       /\ \E i \in 1..(n - 3) :
             /\ log[i][1] = "write" /\ StartsWith(log[i][2], handle[h].ID \o Cmd_W17)
             /\ \A j \in EventsAt(log, "write") : j <= i
       /\ handle[h].open /\ handle[h].baud = call[h].newbaud
       /\ open_ports[handle[h].port] = k
       /\ conns[k].is_open /\ conns[k].baud = call[h].newbaud /\ conns[k].port = handle[h].port

\* A step that calls change_baud with the rate the handle has: nothing is sent
\* and nothing changes
SameRateIsNoOp ==
    \A h \in Handles :
        (call[h].pc = "idle" /\ call'[h] # call[h] /\ call'[h].op = "change_baud"
         /\ call'[h].newbaud = handle[h].baud)
        => /\ call'[h].pc = "idle" /\ call'[h].log = <<>> /\ call'[h].err = "none"
           /\ UNCHANGED <<open_ports, conns, device, handle>>

\* C24: a change_baud to another rate first writes register 17 on the old
\* connection, then flushes, closes and deregisters it, and only then opens and
\* registers a connection at the new rate; the old and the new connection are
\* never both open, and at the end the handle is open, its baud is the new rate
\* and its port's registry entry is the new connection.  With the rate the
\* handle already has, nothing is sent and the connection is untouched.
C24_BaudChangeOrder ==
    /\ [](\A h \in Handles :
            /\ (call[h].op = "change_baud" /\ call[h].pc = "idle" /\ call[h].err = "none"
                /\ call[h].log # <<>>) => BaudChanged(h)
            /\ call[h].op = "change_baud" =>
                  \A a, b \in ConnIds :
                     (conns[a].is_open /\ conns[b].is_open /\ conns[a].port = handle[h].port
                      /\ conns[b].port = handle[h].port) => a = b)
    /\ [][SameRateIsNoOp]_vars

\* A versioned unit was taken from 19200 to 57600 baud on a second connection
C24_Witness ==
    \E h \in Handles :
        /\ call[h].op = "change_baud" /\ call[h].pc = "idle" /\ call[h].err = "none"
        /\ call[h].log # <<>> /\ call[h].newbaud = 57600
        /\ handle[h].firmware_version # GP
        /\ handle[h].baud = 57600 /\ handle[h].connection = 2
        /\ ~conns[1].is_open /\ conns[2].baud = 57600

\* change_baud was called with the rate the handle has
C24_WitnessSameRate ==
    \E h \in Handles :
        /\ call[h].op = "change_baud" /\ call[h].pc = "idle" /\ call[h].log = <<>>
        /\ call[h].err = "none" /\ call[h].newbaud = handle[h].baud

-----------------------------------------------------------------------------
(* Discovery: the tables a unit answers '??G*', '??M*' and '??D*' with, its   *)
(* telemetry line, and what _fetch_gas_list, _fetch_device_data, _data_format *)
(* and get make of them.                                                      *)

\* '??G*', '??M*', '??D*'
Cmd_G_table == <<63, 63, 71, 42>>

Cmd_M_table == <<63, 63, 77, 42>>

Cmd_D_table == <<63, 63, 68, 42>>

\* 'GP', '07', 's', 'string', 'decimal', 'na', '_'
Str_GP == <<71, 80>>

Str_07 == <<48, 55>>

Keywords == {<<115>>, <<115, 116, 114, 105, 110, 103>>, <<100, 101, 99, 105, 109, 97, 108>>}

Str_na == <<110, 97>>

Str_underscore == <<95>>

\* A dict: d with key k bound to v
Put(d, k, v) == [x \in (DOMAIN d) \cup {k} |-> IF x = k THEN v ELSE d[x]]

\* A token of a line as Python holds it: a str, or the int it was converted to
Str(s) == [int |-> FALSE, n |-> 0, s |-> s]

Num(n) == [int |-> TRUE, n |-> n, s |-> <<>>]

\* try: c[i] = int(c[i]) except ValueError: pass
TryInt(s) == IF IsInt(s) THEN Num(IntValue(s)) ELSE Str(s)

\* str.lower()
Lower(s) == [i \in 1..Len(s) |-> IF s[i] \in 65..90 THEN s[i] + 32 ELSE s[i]]

\* self.firmware_version when it is a str other than 'GP': the raw firmware
\* string, before or without its decoding
RawFirmware == -2

\* isinstance(self.firmware_version, str)
IsStr(fw) == fw < 0

\* What a discovery operation works on: self.variables, self.firmware_version,
\* the unit's tables, the frames written, the exception raised and the value
\* returned
Probe(h) ==
    [variables |-> handle[h].variables, firmware_version |-> handle[h].firmware_version,
     tables |-> device[handle[h].port].tables, log |-> <<>>, err |-> "none", values |-> <<>>]

\* self._write(self.ID, command, True): the frame goes out, the lines of the
\* answer come back as _read returns them
Asked(q, ID, command) == [q EXCEPT !.log = Append(@, <<"write", Frame(ID, command)>>)]

LinesOf(table) == [i \in 1..Len(table) |-> ReadResult(table[i] \o <<CR>>)]

\* [i.split() for i in lines]
SplitAll(ls) == [i \in 1..Len(ls) |-> Split(ls[i])]

\* The loop of _fetch_gas_list from line i of gases
RECURSIVE GasLoop(_, _, _)
GasLoop(q, gases, i) ==
    IF i > Len(gases) THEN q
    ELSE LET g == gases[i] IN
         IF Len(g) < 2 THEN [q EXCEPT !.err = "IndexError"]
         ELSE IF ~IsInt(Tail(g[2])) THEN [q EXCEPT !.err = "ValueError"]
         ELSE IF Len(g) < 3 THEN [q EXCEPT !.err = "IndexError"]
         ELSE LET index == IntValue(Tail(g[2]))
                  gas_list == Put(q.variables.gas_list, g[3], index)
              IN GasLoop([q EXCEPT
                            !.variables.gas_list = gas_list,
                            !.variables.gas_ref.index = Put(@, index, index),
                            !.variables.reverse_gas_list = Put(@, index, g[3]),
                            !.variables.gas_ref.name =
                                [x \in (DOMAIN @) \cup (DOMAIN gas_list) |->
                                    IF x \in DOMAIN gas_list THEN gas_list[x] ELSE @[x]]],
                         gases, i + 1)

\* The loop of _fetch_gas_list with the reverse map keyed by the line's
\* position in the table
RECURSIVE GasLoopByPosition(_, _, _)
GasLoopByPosition(q, gases, i) ==
    IF i > Len(gases) THEN q
    ELSE LET g == gases[i] IN
         IF Len(g) < 2 THEN [q EXCEPT !.err = "IndexError"]
         ELSE IF ~IsInt(Tail(g[2])) THEN [q EXCEPT !.err = "ValueError"]
         ELSE IF Len(g) < 3 THEN [q EXCEPT !.err = "IndexError"]
         ELSE LET index == IntValue(Tail(g[2]))
                  gas_list == Put(q.variables.gas_list, g[3], index)
              IN GasLoopByPosition([q EXCEPT
                            !.variables.gas_list = gas_list,
                            !.variables.gas_ref.index = Put(@, index, index),
                            !.variables.reverse_gas_list = Put(@, i - 1, g[3]),
                            !.variables.gas_ref.name =
                                [x \in (DOMAIN @) \cup (DOMAIN gas_list) |->
                                    IF x \in DOMAIN gas_list THEN gas_list[x] ELSE @[x]]],
                         gases, i + 1)

_fetch_gas_listByPosition(q, ID) ==
    LET a == Asked([q EXCEPT !.variables.gas_list = <<>>,
                             !.variables.gas_ref = [index |-> <<>>, name |-> <<>>],
                             !.variables.reverse_gas_list = <<>>], ID, Cmd_G_table)
    IN GasLoopByPosition(a, SplitAll(LinesOf(q.tables.G)), 1)

\* MassFlowMeter._fetch_gas_list
_fetch_gas_list(q, ID) ==
    LET a == Asked([q EXCEPT !.variables.gas_list = <<>>,
                             !.variables.gas_ref = [index |-> <<>>, name |-> <<>>],
                             !.variables.reverse_gas_list = <<>>], ID, Cmd_G_table)
    IN GasLoop(a, SplitAll(LinesOf(q.tables.G)), 1)

\* The string as it is, a capital 'V' left in it
KeepsV(s) == s

\* s.replace('V', 'v')
ReplaceV(s) == [i \in 1..Len(s) |-> IF s[i] = 86 THEN 118 ELSE s[i]]

\* The position of the first 'v' of s, 0 when it has none
FirstV(s) ==
    LET at == {i \in 1..Len(s) : s[i] = 118} IN
    IF at = {} THEN 0 ELSE CHOOSE i \in at : \A j \in at : i <= j

\* The decoding of the raw firmware string in _fetch_device_data: the
\* generation (GP, or the major as an int), the minor, and the exception of a
\* string that has no 'v' or no int before it
DecodeFirmware(raw) ==
    LET s == ReplaceV(raw)
        at == FirstV(s)
        major == SubSeq(s, 1, at - 1)
        minor == SubSeq(s, at + 1, Len(s))
    IN IF Len(raw) >= 2 /\ SubSeq(raw, 1, 2) = Str_GP
       THEN [err |-> "none", firmware_version |-> GP, stored |-> Str(Str_GP), minor |-> Str_07]
       ELSE IF at = 0
       THEN [err |-> "ValueError", firmware_version |-> RawFirmware, stored |-> Str(raw),
             minor |-> <<>>]
       ELSE IF ~IsInt(major)
       THEN [err |-> "ValueError", firmware_version |-> RawFirmware, stored |-> Str(major),
             minor |-> minor]
       ELSE [err |-> "none", firmware_version |-> IntValue(major), stored |-> Num(IntValue(major)),
             minor |-> minor]

\* MassFlowMeter._fetch_device_data
_fetch_device_data(q, ID) ==
    LET a == Asked(q, ID, Cmd_M_table)
        data == SplitAll(LinesOf(q.tables.M))
        raw == data[Len(data)][Len(data[Len(data)])]
        d == DecodeFirmware(raw)
    IN IF Len(data) < 6 THEN [a EXCEPT !.err = "IndexError"]
       ELSE LET b == [a EXCEPT !.variables.serialnum = data[6][Len(data[6])]] IN
            IF d.err # "none"
            THEN [b EXCEPT !.err = d.err, !.firmware_version = RawFirmware,
                           !.variables.firmware_version = d.stored,
                           !.variables.firmware_minor =
                               IF d.minor = <<>> /\ d.stored = Str(raw) THEN @ ELSE d.minor]
            ELSE [b EXCEPT !.firmware_version = d.firmware_version,
                           !.variables.firmware_version = d.stored,
                           !.variables.firmware_minor = d.minor]

\* The screen of _data_format that joins the tokens of a split name: c from
\* position i on, seq tokens of a run seen
RECURSIVE JoinLabelsNoBlank(_, _, _)
JoinLabelsNoBlank(c, i, seq) ==
    IF i > Len(c) THEN c
    ELSE IF ~c[i].int /\ c[i].s \notin Keywords
    THEN JoinLabelsNoBlank(IF seq + 1 > 1 THEN [c EXCEPT ![i - seq].s = @ \o c[i].s] ELSE c,
                           i + 1, seq + 1)
    ELSE JoinLabelsNoBlank(c, i + 1, 0)

RECURSIVE JoinLabels(_, _, _)
JoinLabels(c, i, seq) ==
    IF i > Len(c) THEN c
    ELSE IF ~c[i].int /\ c[i].s \notin Keywords
    THEN JoinLabels(IF seq + 1 > 1 THEN [c EXCEPT ![i - seq].s = @ \o <<SP>> \o c[i].s] ELSE c,
                    i + 1, seq + 1)
    ELSE JoinLabels(c, i + 1, 0)

\* The loop of _data_format for firmware before 6 from line i of outputs
RECURSIVE OlderLoop(_, _, _)
OlderLoop(q, outputs, i) ==
    IF i > Len(outputs) THEN q
    ELSE LET c0 == outputs[i]
             c == IF c0[Len(c0)] \in {Str_na, Str_underscore} THEN SubSeq(c0, 1, Len(c0) - 1) ELSE c0
         IN IF Len(c) < 2 THEN [q EXCEPT !.err = "IndexError"]
            ELSE IF ~IsInt(c[2]) THEN [q EXCEPT !.err = "ValueError"]
            ELSE IF Len(c) < 3 THEN [q EXCEPT !.err = "IndexError"]
            ELSE OlderLoop([q EXCEPT
                              !.variables.data =
                                  Append(@, <<Num(IntValue(c[2])), Str(c[3]), Str(c[Len(c)])>>),
                              !.variables.ranges = Put(@, Lower(c[3]), c[Len(c) - 1])],
                           outputs, i + 1)

\* The second loop of _data_format for firmware from 6 on, from line i of output2
RECURSIVE NewerLoop(_, _, _)
NewerLoop(q, output2, i) ==
    IF i > Len(output2) THEN q
    ELSE LET c == output2[i] IN
         IF Len(c) < 4 THEN [q EXCEPT !.err = "IndexError"]
         ELSE NewerLoop([q EXCEPT !.variables.data = Append(@, <<c[3], c[4], c[Len(c)]>>)],
                        output2, i + 1)

\* MassFlowMeter._data_format
_data_format(q, ID) ==
    LET a == Asked([q EXCEPT !.variables.data = <<>>], ID, Cmd_D_table)
        split == SplitAll(LinesOf(q.tables.D))
        outputs == [i \in 1..Len(split) |-> [split[i] EXCEPT ![2] = Tail(@)]]
        output2 == [i \in 1..Len(outputs) |->
                      JoinLabels([j \in 1..Len(outputs[i]) |-> TryInt(outputs[i][j])], 1, 0)]
        b == IF IsStr(q.firmware_version) \/ q.firmware_version < 6
             THEN OlderLoop([a EXCEPT !.variables.ranges = <<>>], outputs, 3)
             ELSE NewerLoop(a, output2, 3)
    IN IF \E i \in 1..Len(split) : Len(split[i]) < 2 THEN [a EXCEPT !.err = "IndexError"]
       ELSE IF b.err # "none" THEN b
       ELSE [b EXCEPT !.variables.keys = [i \in 1..Len(b.variables.data) |-> b.variables.data[i][2]]]

\* {k: v for k, v in zip(keys, data)}
RECURSIVE Zip(_, _, _, _)
Zip(d, keys, data, i) ==
    IF i > Len(keys) \/ i > Len(data) THEN d
    ELSE Zip(Put(d, keys[i], data[i]), keys, data, i + 1)

\* get binding the keys to the tokens of the line, its unit tag included
getKeepsTag(q, ID) ==
    LET a == Asked(q, ID, <<>>)
        ls == LinesOf(q.tables.poll)
    IN IF ls = <<>> THEN [a EXCEPT !.err = "IndexError"]
       ELSE [a EXCEPT !.values = Zip(<<>>, q.variables.keys, Split(ls[1]), 1)]

\* MassFlowMeter.get
get(q, ID) ==
    LET a == Asked(q, ID, <<>>)
        ls == LinesOf(q.tables.poll)
    IN IF ls = <<>> THEN [a EXCEPT !.err = "IndexError"]
       ELSE [a EXCEPT !.values = Zip(<<>>, q.variables.keys, Tail(Split(ls[1])), 1)]

\* A discovery operation called on an idle handle has run
Probed(h, name, q) ==
    /\ handle' = [handle EXCEPT ![h].variables = q.variables,
                                ![h].firmware_version = q.firmware_version]
    /\ call' = Start(h, [Begin(name) EXCEPT !.log = q.log, !.err = q.err,
                                            !.ret = [NoRet EXCEPT !.values = q.values]])
    /\ UNCHANGED <<open_ports, conns, device, env>>

Fetch_gas_list(h) ==
    /\ CanCall(h)
    /\ Probed(h, "_fetch_gas_list", _fetch_gas_list(Probe(h), handle[h].ID))

Fetch_device_data(h) ==
    /\ CanCall(h)
    /\ Probed(h, "_fetch_device_data", _fetch_device_data(Probe(h), handle[h].ID))

Data_format(h) ==
    /\ CanCall(h)
    /\ Probed(h, "_data_format", _data_format(Probe(h), handle[h].ID))

Get(h) ==
    /\ CanCall(h)
    /\ Probed(h, "get", get(Probe(h), handle[h].ID))

\* Gas tables: three gases; a gas and a custom mix; not a valid table: one name at two indices
\* A G00 Air | A G01 Ar | A G08 N2
GasTable_Three ==
    <<<<65, 32, 71, 48, 48, 32, 65, 105, 114>>,
       <<65, 32, 71, 48, 49, 32, 65, 114>>,
       <<65, 32, 71, 48, 56, 32, 78, 50>>>>

\* A G07 He | A G236 MyMix
GasTable_Mix ==
    <<<<65, 32, 71, 48, 55, 32, 72, 101>>,
       <<65, 32, 71, 50, 51, 54, 32, 77, 121, 77, 105, 120>>>>

\* A G00 Air | A G05 Air
GasTable_Twice ==
    <<<<65, 32, 71, 48, 48, 32, 65, 105, 114>>,
       <<65, 32, 71, 48, 53, 32, 65, 105, 114>>>>

GasTables == {GasTable_Three, GasTable_Mix, GasTable_Twice}

\* Firmware strings: 'GP03', 'GP', 'V2.07', '2V07', '8v12', '10v05.0-R24', '7'
Firmwares ==
    {<<71, 80, 48, 51>>,
     <<71, 80>>,
     <<86, 50, 46, 48, 55>>,
     <<50, 86, 48, 55>>,
     <<56, 118, 49, 50>>,
     <<49, 48, 118, 48, 53, 46, 48, 45, 82, 50, 52>>,
     <<55>>}

\* The manufacturer table of a unit whose firmware string is fw: 'A M05 SN 1234' is
\* its sixth line and 'A M06 FW <fw>' its last
ManufacturerTable(fw) ==
    <<<<65, 32, 77, 48, 48, 32, 97>>,
       <<65, 32, 77, 48, 49, 32, 98>>,
       <<65, 32, 77, 48, 50, 32, 99>>,
       <<65, 32, 77, 48, 51, 32, 100>>,
       <<65, 32, 77, 48, 52, 32, 101>>,
       <<65, 32, 77, 48, 53, 32, 83, 78, 32, 49, 50, 51, 52>>,
       <<65, 32, 77, 48, 54, 32, 70, 87, 32>> \o fw>>

\* Format tables: of the later firmware, with names in two and in three tokens
\* and a unit that follows a token that is no number; of the earlier
\* firmware; with no field after the two header lines
\* A D00 ID_ NAME TYPE WIDTH NOTES
\* A D01 700 Unit ID string 1
\* A D02 002 Abs Press s decimal 7/2 010 02 PSIA
\* A D03 005 Mass Flow s decimal 7/2 012 02 SCCM
\* A D04 037 Mass Flow Setpt s decimal 7/2 SCCM
Format_Newer ==
    <<<<65, 32, 68, 48, 48, 32, 73, 68, 95, 32, 78, 65, 77, 69, 32, 84, 89, 80, 69, 32, 87, 73, 68, 84, 72, 32, 78, 79, 84, 69, 83>>,
       <<65, 32, 68, 48, 49, 32, 55, 48, 48, 32, 85, 110, 105, 116, 32, 73, 68, 32, 115, 116, 114, 105, 110, 103, 32, 49>>,
       <<65, 32, 68, 48, 50, 32, 48, 48, 50, 32, 65, 98, 115, 32, 80, 114, 101, 115, 115, 32, 115, 32, 100, 101, 99, 105, 109, 97, 108, 32, 55, 47, 50, 32, 48, 49, 48, 32, 48, 50, 32, 80, 83, 73, 65>>,
       <<65, 32, 68, 48, 51, 32, 48, 48, 53, 32, 77, 97, 115, 115, 32, 70, 108, 111, 119, 32, 115, 32, 100, 101, 99, 105, 109, 97, 108, 32, 55, 47, 50, 32, 48, 49, 50, 32, 48, 50, 32, 83, 67, 67, 77>>,
       <<65, 32, 68, 48, 52, 32, 48, 51, 55, 32, 77, 97, 115, 115, 32, 70, 108, 111, 119, 32, 83, 101, 116, 112, 116, 32, 115, 32, 100, 101, 99, 105, 109, 97, 108, 32, 55, 47, 50, 32, 83, 67, 67, 77>>>>

\* A D00 NAME RANGE UNITS
\* A D01 Unit_ID na
\* A D02 Press 160 PSIA
\* A D03 Flow 100 SCCM
\* A D04 Gas na
Format_Older ==
    <<<<65, 32, 68, 48, 48, 32, 78, 65, 77, 69, 32, 82, 65, 78, 71, 69, 32, 85, 78, 73, 84, 83>>,
       <<65, 32, 68, 48, 49, 32, 85, 110, 105, 116, 95, 73, 68, 32, 110, 97>>,
       <<65, 32, 68, 48, 50, 32, 80, 114, 101, 115, 115, 32, 49, 54, 48, 32, 80, 83, 73, 65>>,
       <<65, 32, 68, 48, 51, 32, 70, 108, 111, 119, 32, 49, 48, 48, 32, 83, 67, 67, 77>>,
       <<65, 32, 68, 48, 52, 32, 71, 97, 115, 32, 110, 97>>>>

\* A D00 ID_ NAME TYPE
\* A D01 700 Unit ID string 1
Format_Heads ==
    <<<<65, 32, 68, 48, 48, 32, 73, 68, 95, 32, 78, 65, 77, 69, 32, 84, 89, 80, 69>>,
       <<65, 32, 68, 48, 49, 32, 55, 48, 48, 32, 85, 110, 105, 116, 32, 73, 68, 32, 115, 116, 114, 105, 110, 103, 32, 49>>>>

Formats == {Format_Newer, Format_Older, Format_Heads}

\* Telemetry lines: a value for each field and the gas; the same with a
\* setpoint and a status flag; and a unit that does not answer
\* A +14.70 +25.00 +50.00 Air
Poll_Flow == <<65, 32, 43, 49, 52, 46, 55, 48, 32, 43, 50, 53, 46, 48, 48, 32, 43, 53, 48, 46, 48, 48, 32, 65, 105, 114>>

\* A 14 25 50 50 N2 LCK
Poll_Locked == <<65, 32, 49, 52, 32, 50, 53, 32, 53, 48, 32, 53, 48, 32, 78, 50, 32, 76, 67, 75>>

Polls == {<<>>, <<Poll_Flow>>, <<Poll_Locked>>}

\* One meter constructed from a config file on ttyUSB0, before a unit with
\* tables of its own
InitData ==
    \E h \in Handles, G \in GasTables, fw \in Firmwares, D \in Formats, poll \in Polls :
        /\ open_ports = [p \in Ports |-> IF p = "ttyUSB0" THEN 1 ELSE NoConn]
        /\ conns = <<NewConn("ttyUSB0", 19200)>>
        /\ device = [NoDevice EXCEPT !["ttyUSB0"].tables =
                        [NoTables EXCEPT !.G = G, !.M = ManufacturerTable(fw), !.D = D,
                                         !.poll = poll]]
        /\ handle = [g \in Handles |->
                       IF g = h
                       THEN [NoHandle EXCEPT !.exists = TRUE, !.connection = 1, !.open = TRUE,
                                             !.ID = TagOf[h], !.firmware_version = FirmwareOf[h]]
                       ELSE NoHandle]
        /\ call = [g \in Handles |-> Idle]
        /\ env = [replies |-> {<<>>}, prompt |-> TRUE, threads |-> FALSE]

NextData ==
    \/ \E h \in Handles : Fetch_gas_list(h)
    \/ \E h \in Handles : Fetch_device_data(h)
    \/ \E h \in Handles : Data_format(h)
    \/ \E h \in Handles : Get(h)

SpecData == InitData /\ [][NextData]_vars

-----------------------------------------------------------------------------
(* Discovery (SpecData). *)

\* 'V2.07', '2V07', 'N2', 'Mass Flow', 'Mass Flow Setpt', 'SCCM', '+25.00'
V2_07 == <<86, 50, 46, 48, 55>>

Str_2V07 == <<50, 86, 48, 55>>

Str_N2 == <<78, 50>>

Str_Mass_Flow == <<77, 97, 115, 115, 32, 70, 108, 111, 119>>

Str_Mass_Flow_Setpt == <<77, 97, 115, 115, 32, 70, 108, 111, 119, 32, 83, 101, 116, 112, 116>>

Str_SCCM == <<83, 67, 67, 77>>

Str_p25 == <<43, 50, 53, 46, 48, 48>>

\* The raw firmware string of the unit of h: the last token of the last line of
\* its manufacturer table
RawOf(h) ==
    LET M == device[handle[h].port].tables.M
        toks == Split(M[Len(M)])
    IN toks[Len(toks)]

\* The positions of s that hold 'V' or 'v'
AtV(s) == {i \in 1..Len(s) : s[i] \in {86, 118}}

\* A step of _fetch_device_data on h decodes the raw string to the major and the
\* minor given
DecodesTo(h, major, minor) ==
    /\ call'[h].err = "none"
    /\ handle'[h].firmware_version = major
    /\ handle'[h].variables.firmware_version = (IF major = GP THEN Str(Str_GP) ELSE Num(major))
    /\ handle'[h].variables.firmware_minor = minor

\* C25: _fetch_device_data decodes a raw firmware string that starts with 'GP'
\* to the legacy generation with minor '07', whatever follows, and any other
\* string to the int before its first 'V' or 'v' as major and what follows it
\* as minor, so that 'V2.07' decodes to major 2 and minor '07'.
C25_FirmwareAsClaimed ==
    [][\A h \in Handles :
        call'[h].op = "_fetch_device_data"
        => LET raw == RawOf(h) IN
           /\ (Len(raw) >= 2 /\ SubSeq(raw, 1, 2) = Str_GP) => DecodesTo(h, GP, Str_07)
           /\ raw = V2_07 => DecodesTo(h, 2, Str_07)]_vars

\* C25, amended: a raw string that starts with 'GP' decodes to the legacy
\* generation with minor '07'; any other string is split at its first 'V' or
\* 'v', what precedes it is the major, which must be an int, and what follows
\* it the minor, so that '2V07' decodes to major 2 and minor '07'; a string
\* with no 'V' or 'v', or, as 'V2.07', with no int before it, is not decoded:
\* the operation fails with a ValueError.
C25_FirmwareDecoding ==
    [][\A h \in Handles :
        call'[h].op = "_fetch_device_data"
        => LET raw == RawOf(h)
               at == CHOOSE i \in AtV(raw) : \A j \in AtV(raw) : i <= j
           IN IF Len(raw) >= 2 /\ SubSeq(raw, 1, 2) = Str_GP
              THEN DecodesTo(h, GP, Str_07)
              ELSE IF AtV(raw) # {} /\ IsInt(SubSeq(raw, 1, at - 1))
              THEN DecodesTo(h, IntValue(SubSeq(raw, 1, at - 1)), SubSeq(raw, at + 1, Len(raw)))
              ELSE /\ call'[h].err = "ValueError"
                   /\ IsStr(handle'[h].firmware_version)
                   /\ handle'[h].firmware_version # GP]_vars

\* '2V07' was decoded to major 2 and minor '07'
C25_Witness ==
    \E h \in Handles :
        /\ call[h].op = "_fetch_device_data" /\ call[h].err = "none"
        /\ RawOf(h) = Str_2V07
        /\ handle[h].firmware_version = 2
        /\ handle[h].variables.firmware_minor = Str_07

\* The tokens of the lines of the gas table of the unit of h
GasLines(h) == SplitAll(device[handle[h].port].tables.G)

\* A gas table is valid when each line has a tag, 'G' with an index and a name,
\* and no two lines share a name or an index
ValidGasTable(gases) ==
    /\ \A i \in 1..Len(gases) : Len(gases[i]) = 3 /\ IsDigits(Tail(gases[i][2]))
    /\ \A i, j \in 1..Len(gases) :
          i # j => /\ gases[i][3] # gases[j][3]
                   /\ DigitsValue(Tail(gases[i][2])) # DigitsValue(Tail(gases[j][2]))

\* C26: after _fetch_gas_list on a valid gas table, gas_list and
\* reverse_gas_list are inverses of each other, they hold the names and the
\* indices of the table, and gas_ref maps each name and each index to the
\* index of its gas.
C26_GasMapsInverse ==
    \A h \in Handles :
        (/\ handle[h].exists /\ call[h].op = "_fetch_gas_list" /\ call[h].err = "none"
         /\ ValidGasTable(GasLines(h)))
        => LET v == handle[h].variables
               gases == GasLines(h)
           IN /\ DOMAIN v.gas_list = {gases[i][3] : i \in 1..Len(gases)}
              /\ DOMAIN v.reverse_gas_list = {DigitsValue(Tail(gases[i][2])) : i \in 1..Len(gases)}
              /\ \A i \in 1..Len(gases) : v.gas_list[gases[i][3]] = DigitsValue(Tail(gases[i][2]))
              /\ \A name \in DOMAIN v.gas_list : v.reverse_gas_list[v.gas_list[name]] = name
              /\ \A index \in DOMAIN v.reverse_gas_list :
                    v.gas_list[v.reverse_gas_list[index]] = index
              /\ DOMAIN v.gas_ref.name = DOMAIN v.gas_list
              /\ DOMAIN v.gas_ref.index = DOMAIN v.reverse_gas_list
              /\ \A name \in DOMAIN v.gas_list : v.gas_ref.name[name] = v.gas_list[name]
              /\ \A index \in DOMAIN v.reverse_gas_list : v.gas_ref.index[index] = index

\* The maps were built from the table of Air, Ar and N2
C26_Witness ==
    \E h \in Handles :
        /\ call[h].op = "_fetch_gas_list" /\ call[h].err = "none"
        /\ device[handle[h].port].tables.G = GasTable_Three
        /\ handle[h].variables.gas_list[Str_N2] = 8
        /\ handle[h].variables.reverse_gas_list[8] = Str_N2

\* The tokens of the field lines of the format table of the unit of h: its
\* lines after the two header lines
FieldLines(h) ==
    LET D == device[handle[h].port].tables.D IN
    [i \in 1..(IF Len(D) > 2 THEN Len(D) - 2 ELSE 0) |-> Split(D[i + 2])]

\* A token of a name: no number and none of 's', 'string', 'decimal'
IsNameToken(t) == ~IsInt(t) /\ t \notin Keywords

\* The tokens of toks from position i to the end of the run of name tokens that
\* i is in, with single blanks between them
RECURSIVE Spaced(_, _)
Spaced(toks, i) ==
    IF i < Len(toks) /\ IsNameToken(toks[i + 1])
    THEN toks[i] \o <<SP>> \o Spaced(toks, i + 1)
    ELSE toks[i]

LabelOf(toks, fw) ==
    IF IsStr(fw) \/ fw < 6 THEN Str(toks[3])
    ELSE IF IsNameToken(toks[4]) /\ ~IsNameToken(toks[3]) THEN Str(Spaced(toks, 4))
    ELSE TryInt(toks[4])

\* The keys are the labels of the field lines of the format table, in the
\* table's order, and no two are the same
SchemaInOrder(h) ==
    LET fields == FieldLines(h)
        keys == handle[h].variables.keys
    IN /\ Len(keys) = Len(fields)
       /\ \A i \in 1..Len(keys) : keys[i] = LabelOf(fields[i], handle[h].firmware_version)
       /\ \A i, j \in 1..Len(keys) : i # j => keys[i] # keys[j]

\* C28: the schema _data_format builds is ordered like the field lines of the
\* format table (after its two header lines) and its labels are pairwise
\* distinct; get returns a mapping of exactly the schema's labels in which the
\* i-th label is bound to token i + 1 of the first telemetry line.
C28_SchemaAndGet ==
    \A h \in Handles :
        /\ (handle[h].exists /\ call[h].op = "_data_format" /\ call[h].err = "none")
           => SchemaInOrder(h)
        /\ (handle[h].exists /\ call[h].op = "get" /\ call[h].err = "none")
           => LET keys == handle[h].variables.keys
                  toks == Split(device[handle[h].port].tables.poll[1])
                  values == call[h].ret.values
              IN /\ DOMAIN values = {keys[i] : i \in 1..Len(keys)}
                 /\ \A i \in 1..Len(keys) : i + 1 <= Len(toks) /\ values[keys[i]] = toks[i + 1]

\* get bound the three labels of the later format to the values of a line
C28_Witness ==
    \E h \in Handles :
        /\ call[h].op = "get" /\ call[h].err = "none"
        /\ Len(handle[h].variables.keys) = 3
        /\ handle[h].variables.keys[2] = Str(Str_Mass_Flow)
        /\ device[handle[h].port].tables.poll = <<Poll_Flow>>
        /\ call[h].ret.values[Str(Str_Mass_Flow)] = Str_p25

-----------------------------------------------------------------------------
(* PressureMeter: its construction without a config file. *)

\* 'FPF '
Cmd_FPF == <<70, 80, 70, 32>>

\* float(token) of a token with an optional sign, digits and at most one point
\* among them, in thousandths; no other form of a float is drawn
IsFloat(s) ==
    LET t == IF s # <<>> /\ Head(s) \in {43, 45} THEN Tail(s) ELSE s
        points == {i \in 1..Len(t) : t[i] = 46}
    IN /\ Cardinality(points) <= 1
       /\ \A i \in 1..Len(t) : t[i] = 46 \/ t[i] \in 48..57
       /\ \E i \in 1..Len(t) : t[i] \in 48..57

Thousandths(s) ==
    LET t == IF Head(s) \in {43, 45} THEN Tail(s) ELSE s
        points == {i \in 1..Len(t) : t[i] = 46}
        at == IF points = {} THEN Len(t) + 1 ELSE CHOOSE i \in points : TRUE
        whole == SubSeq(t, 1, at - 1)
        part == SubSeq(SubSeq(t, at + 1, Len(t)) \o <<48, 48, 48>>, 1, 3)
        value == 1000 * DigitsValue(whole) + DigitsValue(part)
    IN IF Head(s) = 45 THEN 0 - value ELSE value

\* The FPF statistic numbers of 'Dif Press', 'Ga Press' and 'Abs Press', in
\* FPF numbers from 'Abs Press' up
FullscaleOrderAbsFirst == <<2, 6, 7>>

\* The FPF statistic numbers of 'Dif Press', 'Ga Press' and 'Abs Press', in the
\* order __init__ asks for them
FullscaleOrder == <<7, 6, 2>>

\* PressureMeter._fetch_device_data: no legacy generation is known
P_fetch_device_data(q, ID) ==
    LET a == Asked(q, ID, Cmd_M_table)
        data == SplitAll(LinesOf(q.tables.M))
        raw == data[Len(data)][Len(data[Len(data)])]
        s == ReplaceV(raw)
        at == FirstV(s)
        major == SubSeq(s, 1, at - 1)
        minor == SubSeq(s, at + 1, Len(s))
    IN IF Len(data) < 6 THEN [a EXCEPT !.err = "IndexError"]
       ELSE LET b == [a EXCEPT !.variables.serialnum = data[6][Len(data[6])]] IN
            IF at = 0 THEN [b EXCEPT !.err = "ValueError"]
            ELSE IF ~IsInt(major)
            THEN [b EXCEPT !.err = "ValueError", !.variables.firmware_version = Str(major),
                           !.variables.firmware_minor = minor]
            ELSE [b EXCEPT !.firmware_version = IntValue(major),
                           !.variables.firmware_version = Num(IntValue(major)),
                           !.variables.firmware_minor = minor]

\* PressureMeter._data_format: for firmware before 6 the first field line ends
\* in the KeyError of self.variables['ranges']
P_data_format(q, ID) ==
    LET a == Asked([q EXCEPT !.variables.data = <<>>], ID, Cmd_D_table)
        split == SplitAll(LinesOf(q.tables.D))
        outputs == [i \in 1..Len(split) |-> [split[i] EXCEPT ![2] = Tail(@)]]
        output2 == [i \in 1..Len(outputs) |->
                      JoinLabels([j \in 1..Len(outputs[i]) |-> TryInt(outputs[i][j])], 1, 0)]
        c0 == outputs[3]
        c == IF c0[Len(c0)] \in {Str_na, Str_underscore} THEN SubSeq(c0, 1, Len(c0) - 1) ELSE c0
        b == IF q.firmware_version >= 6 THEN NewerLoop(a, output2, 3)
             ELSE IF Len(outputs) < 3 THEN a
             ELSE IF Len(c) < 2 THEN [a EXCEPT !.err = "IndexError"]
             ELSE IF ~IsInt(c[2]) THEN [a EXCEPT !.err = "ValueError"]
             ELSE IF Len(c) < 3 THEN [a EXCEPT !.err = "IndexError"]
             ELSE [a EXCEPT !.err = "KeyError",
                            !.variables.data =
                                Append(@, <<Num(IntValue(c[2])), Str(c[3]), Str(c[Len(c)])>>)]
    IN IF \E i \in 1..Len(split) : Len(split[i]) < 2 THEN [a EXCEPT !.err = "IndexError"]
       ELSE IF b.err # "none" THEN b
       ELSE [b EXCEPT !.variables.keys = [i \in 1..Len(b.variables.data) |-> b.variables.data[i][2]]]

\* PressureMeter._get_fullscale(statistic), statistic given by its FPF number:
\* the operation after it and the value returned
P_get_fullscale(q, ID, n) ==
    IF q.firmware_version < 6 THEN [q |-> [q EXCEPT !.err = "KeyError"], val |-> 0]
    ELSE LET a == Asked(q, ID, Cmd_FPF \o Digits(n))
             response == LinesOf(q.tables.FPF[n])
             toks == Split(response[1])
         IN IF response = <<>> \/ Len(toks) < 2 THEN [q |-> [a EXCEPT !.err = "IndexError"], val |-> 0]
            ELSE IF ~IsFloat(toks[2]) THEN [q |-> [a EXCEPT !.err = "ValueError"], val |-> 0]
            ELSE [q |-> a, val |-> Thousandths(toks[2])]

\* The three places of __init__ at which _get_fullscale is called
ProbeAt == [dif |-> 1, ga |-> 2, abs |-> 3]

NextProbe == [dif |-> "ga", ga |-> "abs", abs |-> "idle"]

\* The object under construction as the discovery steps see it
Building(h) == [Probe(h) EXCEPT !.log = call[h].log]

\* A step of the construction has ended in q: the object goes on to the place
\* pc, or, when the step raised, is dropped with the registry as it is
Built(h, q, pc) ==
    /\ handle' = IF q.err # "none" THEN [handle EXCEPT ![h] = NoHandle]
                 ELSE [handle EXCEPT ![h].variables = q.variables,
                                     ![h].firmware_version = q.firmware_version,
                                     ![h].exists = (pc = "idle")]
    /\ call' = [call EXCEPT ![h].log = q.log, ![h].err = q.err,
                            ![h].pc = IF q.err # "none" THEN "idle" ELSE pc]
    /\ UNCHANGED <<open_ports, conns, device, env>>

\* PressureMeter(ID, port, baud) up to self.variables = {}
P_Begin(h, ID, port, baud) ==
    /\ ~handle[h].exists
    /\ \A g \in Handles : call[g].pc = "idle"
    /\ Room(port)
    /\ LET st == __init__(Registry, h, port, baud) IN
       /\ Install([st EXCEPT !.handle[h].ID = ID, !.handle[h].class = "PressureMeter",
                             !.handle[h].firmware_version = RawFirmware,
                             !.handle[h].variables = NoVariables])
       /\ call' = Start(h, [Begin("PressureMeter") EXCEPT !.log = st.events, !.pc = "fetch"])
    /\ UNCHANGED <<device, env>>

\* The firmware majors of the config files a pressure unit is loaded from
SnapshotMajors == {6, 8}

\* PressureMeter(ID, port, baud, config): self.variables is what the file holds,
\* of a unit of firmware major and minor '21'; no command is sent
P_Load(h, ID, port, baud, major) ==
    /\ ~handle[h].exists
    /\ \A g \in Handles : call[g].pc = "idle"
    /\ Room(port)
    /\ LET st == __init__(Registry, h, port, baud) IN
       /\ Install([st EXCEPT !.handle[h].ID = ID, !.handle[h].class = "PressureMeter",
                             !.handle[h].exists = TRUE,
                             !.handle[h].firmware_version = major,
                             !.handle[h].variables =
                                 [NoVariables EXCEPT !.firmware_version = Num(major),
                                                     !.firmware_minor = <<50, 49>>,
                                                     !.fullscale = 100000]])
       /\ call' = Start(h, [Begin("PressureMeter(config)") EXCEPT !.args = <<major>>,
                                                                !.log = st.events])
    /\ UNCHANGED <<device, env>>

\* self._fetch_device_data() of __init__
P_Fetch(h) ==
    /\ call[h].op = "PressureMeter" /\ call[h].pc = "fetch"
    /\ Built(h, P_fetch_device_data(Building(h), handle[h].ID), "format")

\* self._data_format() of __init__
P_Format(h) ==
    /\ call[h].op = "PressureMeter" /\ call[h].pc = "format"
    /\ Built(h, P_data_format(Building(h), handle[h].ID), "dif")

\* fullscale = self._get_fullscale(...) of __init__ and the test of fullscale
\* after it; self.variables['fullscale'] = fullscale when no call is left
P_Fullscale(h) ==
    /\ call[h].op = "PressureMeter" /\ call[h].pc \in DOMAIN ProbeAt
    /\ LET r == P_get_fullscale(Building(h), handle[h].ID, FullscaleOrder[ProbeAt[call[h].pc]])
           more == r.val = 0 /\ NextProbe[call[h].pc] # "idle"
       IN Built(h, IF r.q.err # "none" \/ more THEN r.q
                   ELSE [r.q EXCEPT !.variables.fullscale = r.val],
                IF more THEN NextProbe[call[h].pc] ELSE "idle")

\* Answers to an FPF query: none, zero, 100.0 and 15
Fullscale_None == <<>>

Fullscale_Zero == <<<<65, 32, 43, 48, 46, 48, 48, 48, 32, 80, 83, 73>>>>

Fullscale_100 == <<<<65, 32, 43, 49, 48, 48, 46, 48, 32, 80, 83, 73>>>>

Fullscale_15 == <<<<65, 32, 49, 53, 32, 80, 83, 73>>>>

Fullscales == {Fullscale_None, Fullscale_Zero, Fullscale_100, Fullscale_15}

\* A format table of a pressure unit of the later firmware
\* A D00 ID_ NAME TYPE WIDTH NOTES
\* A D01 700 Unit ID string 1
\* A D02 002 Abs Press s decimal 7/2 010 02 PSIA
Format_Pressure ==
    <<<<65, 32, 68, 48, 48, 32, 73, 68, 95, 32, 78, 65, 77, 69, 32, 84, 89, 80, 69, 32, 87, 73, 68, 84, 72, 32, 78, 79, 84, 69, 83>>,
       <<65, 32, 68, 48, 49, 32, 55, 48, 48, 32, 85, 110, 105, 116, 32, 73, 68, 32, 115, 116, 114, 105, 110, 103, 32, 49>>,
       <<65, 32, 68, 48, 50, 32, 48, 48, 50, 32, 65, 98, 115, 32, 80, 114, 101, 115, 115, 32, 115, 32, 100, 101, 99, 105, 109, 97, 108, 32, 55, 47, 50, 32, 48, 49, 48, 32, 48, 50, 32, 80, 83, 73, 65>>>>

\* The firmware strings of pressure units: '5v03', '6v21', '8V12'
PressureFirmwares == {<<53, 118, 48, 51>>, <<54, 118, 50, 49>>, <<56, 86, 49, 50>>}

\* No handle yet, and on ttyUSB0 a pressure unit with tables of its own
InitPressure ==
    \E fw \in PressureFirmwares, D \in {Format_Pressure, Format_Heads},
       dif \in Fullscales, ga \in Fullscales, abs \in Fullscales :
        /\ open_ports = [p \in Ports |-> NoConn]
        /\ conns = <<>>
        /\ device = [NoDevice EXCEPT !["ttyUSB0"].tables =
                        [NoTables EXCEPT !.M = ManufacturerTable(fw), !.D = D,
                                         !.FPF = (7 :> dif) @@ (6 :> ga) @@ (2 :> abs)]]
        /\ handle = [g \in Handles |-> NoHandle]
        /\ call = [g \in Handles |-> Idle]
        /\ env = [replies |-> {<<>>}, prompt |-> TRUE, threads |-> FALSE]

NextPressure ==
    \E h \in Handles :
        \/ P_Begin(h, TagOf[h], "ttyUSB0", 19200)
        \/ \E major \in SnapshotMajors : P_Load(h, TagOf[h], "ttyUSB0", 19200, major)
        \/ P_Fetch(h)
        \/ P_Format(h)
        \/ P_Fullscale(h)

SpecPressure == InitPressure /\ [][NextPressure]_vars

-----------------------------------------------------------------------------
(* The full scale of a pressure unit (SpecPressure). *)

IsProbe(e) == e[1] = "write" /\ Len(e[2]) = 7 /\ SubSeq(e[2], 2, 5) = Cmd_FPF

\* The FPF numbers asked for so far by the construction of h, in their order
ProbesOf(h) ==
    LET asked == SelectSeq(call[h].log, IsProbe)
    IN [i \in 1..Len(asked) |-> asked[i][2][6] - 48]

\* What the unit answers to FPF n, in thousandths; -1 when it answers nothing
FullscaleAnswer(h, n) ==
    LET answer == device[handle[h].port].tables.FPF[n]
    IN CASE answer = Fullscale_Zero -> 0
         [] answer = Fullscale_100 -> 100000
         [] answer = Fullscale_15 -> 15000
         [] OTHER -> -1

\* C29: the construction of a pressure unit asks for the full scale with FPF 7,
\* then FPF 6, then FPF 2; a later one is asked only when every earlier one was
\* answered with zero, nothing is asked after an answer that is not zero, and a
\* construction that ends stores the last answer as the full scale
C29_FullscaleProbes ==
    \A h \in Handles :
        call[h].op = "PressureMeter" =>
            LET probes == ProbesOf(h) IN
            /\ Len(probes) <= 3
            /\ probes = SubSeq(<<7, 6, 2>>, 1, Len(probes))
            /\ \A k \in 2..Len(probes) : FullscaleAnswer(h, probes[k - 1]) = 0
            /\ handle[h].exists =>
                  /\ call[h].pc = "idle" /\ call[h].err = "none"
                  /\ probes # <<>>
                  /\ handle[h].variables.fullscale = FullscaleAnswer(h, probes[Len(probes)])
                  /\ handle[h].variables.fullscale # 0 \/ probes = <<7, 6, 2>>

\* The differential full scale is zero and the gauge one is 100: two are asked
C29_Witness ==
    \E h \in Handles :
        /\ call[h].op = "PressureMeter" /\ handle[h].exists
        /\ FullscaleAnswer(h, 7) = 0 /\ FullscaleAnswer(h, 6) = 100000
        /\ ProbesOf(h) = <<7, 6>>
        /\ handle[h].variables.fullscale = 100000

\* All three are zero: all three are asked and the full scale is zero
C29_WitnessAllZero ==
    \E h \in Handles :
        /\ call[h].op = "PressureMeter" /\ handle[h].exists
        /\ ProbesOf(h) = <<7, 6, 2>>
        /\ handle[h].variables.fullscale = 0

-----------------------------------------------------------------------------
(* The operations that depend on the firmware generation. *)

\* f'{(t + 273.15) * 100000}' in double arithmetic, for the temperatures drawn
\* (0: 27314999.999999996, 25: 29814999.999999996)
KelvinCounts == (0 :> <<50, 55, 51, 49, 52, 57, 57, 57, 46, 57, 57, 57, 57, 57, 57, 57, 57, 54>>) @@ (25 :> <<50, 57, 56, 49, 52, 57, 57, 57, 46, 57, 57, 57, 57, 57, 57, 57, 57, 54>>)

Temperatures == DOMAIN KelvinCounts

\* standardpress and normalpress, in whole PSIA
Pressures == {1, 14}

\* f'{x}' of a float x whose value is the integer n
FloatStr(n) == IntStr(n) \o <<46, 48>>

\* '$$W<addr>='
Cmd_Wreg(addr) == Cmd_W \o Digits(addr) \o <<61>>

\* if self.firmware_version == 'GP' of change_stp and change_ntp
LegacyOnly(fw) == fw = GP

\* isinstance(self.firmware_version, str) or self.firmware_version < 8
Before8(fw) == IsStr(fw) \/ fw < 8

\* change_stp(standardtemp, standardpress) and change_ntp(normaltemp,
\* normalpress): first is register 137 or 139
change_tp(m, ID, fw, first, temp, press) ==
    IF LegacyOnly(fw) THEN [m EXCEPT !.err = "Exception"]
    ELSE LET a == WriteCommand(m, ID, Cmd_Wreg(first) \o KelvinCounts[temp])
         IN WriteCommand(a, ID, Cmd_Wreg(first + 1) \o IntStr(press * 100000))

change_stp(m, ID, fw, standardtemp, standardpress) ==
    change_tp(m, ID, fw, 137, standardtemp, standardpress)

change_ntp(m, ID, fw, normaltemp, normalpress) ==
    change_tp(m, ID, fw, 139, normaltemp, normalpress)

\* setpoint_ramp(step_size, timedelta) of MassFlowController, whose full scale
\* is self.variables['mfullscale'], and of PressureController, whose full scale
\* is self.variables['fullscale'] in thousandths; the quotient of // is a float
setpoint_ramp(m, ID, fw, class, step_size, timedelta) ==
    IF Before8(fw) THEN [m EXCEPT !.err = "Exception"]
    ELSE LET counts == step_size * 64000
             scale == m.variables.fullscale
             step == IF class = "PressureController"
                     THEN 1000 * (counts \div scale) + (1000 * (counts % scale)) \div scale
                     ELSE counts \div m.variables.mfullscale
             a == WriteCommand(m, ID, Cmd_Wreg(160) \o FloatStr(step))
         IN WriteCommand(a, ID, Cmd_Wreg(161) \o IntStr(timedelta))

\* setpoint_limits(minimum, maximum): MassFlowController reads self.fullscale,
\* which no code sets, as soon as a limit is not zero; PressureController reads
\* the name variables, which is not defined, before any limit is looked at
setpoint_limits(m, ID, fw, class, minimum, maximum) ==
    IF Before8(fw) THEN [m EXCEPT !.err = "Exception"]
    ELSE IF class = "PressureController" THEN [m EXCEPT !.err = "NameError"]
    ELSE IF minimum # 0 \/ maximum # 0 THEN [m EXCEPT !.err = "AttributeError"]
    ELSE m

\* flow_limit(limit) of MassFlowController, for the limits the full scale divides
flow_limit(m, ID, fw, limit) ==
    IF Before8(fw) THEN [m EXCEPT !.err = "Exception"]
    ELSE WriteCommand(m, ID, Cmd_Wreg(165) \o FloatStr((limit * 64000) \div m.variables.mfullscale))

FlowClasses == {"MassFlowController"}

Change_stp(h, standardtemp, standardpress) ==
    /\ CanCall(h) /\ handle[h].class \in FlowClasses
    /\ Ran(h, "change_stp", <<standardtemp, standardpress>>,
           change_stp(Machine(h), handle[h].ID, handle[h].firmware_version,
                      standardtemp, standardpress))

Change_ntp(h, normaltemp, normalpress) ==
    /\ CanCall(h) /\ handle[h].class \in FlowClasses
    /\ Ran(h, "change_ntp", <<normaltemp, normalpress>>,
           change_ntp(Machine(h), handle[h].ID, handle[h].firmware_version,
                      normaltemp, normalpress))

Setpoint_ramp(h, step_size, timedelta) ==
    /\ CanCall(h)
    /\ Ran(h, "setpoint_ramp", <<step_size, timedelta>>,
           setpoint_ramp(Machine(h), handle[h].ID, handle[h].firmware_version,
                         handle[h].class, step_size, timedelta))

Setpoint_limits(h, minimum, maximum) ==
    /\ CanCall(h)
    /\ Ran(h, "setpoint_limits", <<minimum, maximum>>,
           setpoint_limits(Machine(h), handle[h].ID, handle[h].firmware_version,
                           handle[h].class, minimum, maximum))

Flow_limit(h, limit) ==
    /\ CanCall(h) /\ handle[h].class \in FlowClasses
    /\ Ran(h, "flow_limit", <<limit>>,
           flow_limit(Machine(h), handle[h].ID, handle[h].firmware_version, limit))

\* loops of pid_loop: 'PDF' and 'PD2I'
Loops == <<<<80, 68, 70>>, <<80, 68, 50, 73>>>>

\* The loop pid_loop is called with: a name, or "0" and "1" for the ints 0 and 1
LoopArgs == {"PDF", "PD2I", "PDDI", "0", "1"}

\* 'R85' and 'W85=', the commands of PressureController.pid_loop
Cmd_R85_bare == <<82, 56, 53>>

Cmd_W85_bare == <<87, 56, 53, 61>>

\* What pid_loop(read=True) makes of the value of register addr: the index in loops
LoopOf(addr, val) ==
    IF addr = 23 /\ AndBit(val, 1) # 0 THEN 1
    ELSE IF val = 0 \/ val = 1 THEN 0 ELSE 1

\* pid_loop(loop, read=True) of MassFlowController and of PressureController:
\* val is the index in loops of the name returned
pid_loop_read(m, ID, fw, class) ==
    LET addr == IF class = "MassFlowController" /\ fw = GP THEN 23 ELSE 85
        a == ReadValue(m, ID, Cmd_R \o Digits(addr), 4)
    IN IF a.err # "none" THEN a ELSE [a EXCEPT !.val = LoopOf(addr, a.val)]

\* MassFlowController.pid_loop(loop, read=False): 'PDF' or 0 is 'PDF' and
\* 'PDDI' or 'PD2I' or 1 is 'PDDI'
pid_loop_set(m, ID, fw, loop) ==
    IF fw = GP
    THEN LET a == ReadValue(m, ID, Cmd_R \o Digits(23), 4)
             current == IF AndBit(a.val, 1) # 0 THEN "1" ELSE "0"
             b == [a EXCEPT !.variables.current_loop = current]
         IN IF a.err # "none" THEN a
            ELSE IF loop = "PDF" /\ current # "0"
            THEN [WriteCommand(b, ID, Cmd_W \o Digits(23) \o <<61>> \o IntStr(a.val - 1))
                    EXCEPT !.variables.current_loop = "0"]
            ELSE IF loop \in {"PDDI", "PD2I"} /\ current # "1"
            THEN [WriteCommand(b, ID, Cmd_W \o Digits(23) \o <<61>> \o IntStr(a.val + 1))
                    EXCEPT !.variables.current_loop = "1"]
            ELSE b
    ELSE LET a == ReadValue(m, ID, Cmd_R \o Digits(85), 4)
             val == IF loop = "PDF" THEN 0
                    ELSE IF loop = "PDDI" THEN (IF a.val > 2 THEN 32770 ELSE 2)
                    ELSE a.val
         IN IF a.err # "none" THEN a
            ELSE WriteCommand(a, ID, Cmd_W \o Digits(85) \o <<61>> \o IntStr(val))

\* PressureController.pid_loop(loop, read=False): its commands have no '$$'
P_pid_loop_set(m, ID, loop) ==
    LET a == ReadValue(m, ID, Cmd_R85_bare, 4)
        val == IF loop = "PDF" THEN 0
               ELSE IF loop = "PDDI" THEN (IF a.val > 2 THEN 32770 ELSE 2)
               ELSE a.val
        b == IF loop \in {"PDF", "PDDI"} THEN [a EXCEPT !.variables.current_loop = loop] ELSE a
    IN IF a.err # "none" THEN a
       ELSE WriteCommand(b, ID, Cmd_W85_bare \o IntStr(val))

pid_loop(m, ID, fw, class, loop, read) ==
    IF read THEN pid_loop_read(m, ID, fw, class)
    ELSE IF class = "PressureController" THEN P_pid_loop_set(m, ID, loop)
    ELSE pid_loop_set(m, ID, fw, loop)

\* The effect of pid_loop: a read returns loops[loop], a set returns None
Looped(h, loop, read, m) ==
    /\ device' = [device EXCEPT ![handle[h].port].regs = m.regs]
    /\ handle' = [handle EXCEPT ![h].variables = m.variables]
    /\ call' = Start(h, [Begin("pid_loop") EXCEPT
                           !.args = <<loop, read>>, !.log = m.log, !.err = m.err,
                           !.ret = IF read /\ m.err = "none"
                                   THEN [NoRet EXCEPT !.kind = "str", !.line = Loops[m.val + 1]]
                                   ELSE NoRet])
    /\ UNCHANGED <<open_ports, conns, env>>

Pid_loop(h, loop, read) ==
    /\ CanCall(h)
    /\ Looped(h, loop, read, pid_loop(Machine(h), handle[h].ID, handle[h].firmware_version,
                                      handle[h].class, loop, read))

\* Register 23 of a legacy unit and register 85 of the others at the start
LoopRegisters == {0, 1, 2, 3, 6}

\* The generations of the flow controllers and of the pressure controllers a
\* config file can come from: the legacy one and the majors 5, 7, 8 and 10
Generations ==
    [MassFlowController |-> {GP, 5, 7, 8, 10}, PressureController |-> {7, 8, 10}]

\* Set points and limits in the units of a full scale of 100
Amounts == {0, 10, 50}

\* One controller loaded from its config file, its unit on the port
InitGen ==
    \E h \in Handles, class \in DOMAIN Generations, r \in LoopRegisters :
        \E fw \in Generations[class] :
            /\ open_ports = [p \in Ports |-> IF p = "ttyUSB0" THEN 1 ELSE NoConn]
            /\ conns = <<NewConn("ttyUSB0", 19200)>>
            /\ device = [NoDevice EXCEPT !["ttyUSB0"].regs =
                            [a \in {17, 18, 19, 20, 23, 85} |->
                                IF a = 17 THEN 256 * Ord(TagOf[h]) + 2
                                ELSE IF a = (IF fw = GP THEN 23 ELSE 85) THEN r
                                ELSE 0]]
            /\ handle = [g \in Handles |->
                           IF g = h
                           THEN [NoHandle EXCEPT !.exists = TRUE, !.connection = 1, !.open = TRUE,
                                                 !.ID = TagOf[h], !.firmware_version = fw,
                                                 !.class = class,
                                                 !.variables.fullscale =
                                                     IF class = "PressureController" THEN 100000
                                                     ELSE 100]
                           ELSE NoHandle]
            /\ call = [g \in Handles |-> Idle]
            /\ env = [replies |-> {<<>>}, prompt |-> TRUE, threads |-> FALSE]

NextGen ==
    \/ \E h \in Handles, temp \in Temperatures, press \in Pressures : Change_stp(h, temp, press)
    \/ \E h \in Handles, temp \in Temperatures, press \in Pressures : Change_ntp(h, temp, press)
    \/ \E h \in Handles, step_size \in Amounts, timedelta \in {0, 5} :
          Setpoint_ramp(h, step_size, timedelta)
    \/ \E h \in Handles, minimum \in Amounts, maximum \in Amounts :
          Setpoint_limits(h, minimum, maximum)
    \/ \E h \in Handles, limit \in Amounts : Flow_limit(h, limit)
    \/ \E h \in Handles, loop \in LoopArgs, read \in BOOLEAN : Pid_loop(h, loop, read)

SpecGen == InitGen /\ [][NextGen]_vars

-----------------------------------------------------------------------------
(* The firmware generations (SpecGen). *)

GatedOps == {"change_stp", "change_ntp", "setpoint_ramp", "setpoint_limits", "flow_limit"}

\* The generation of the handle does not support the operation
Unsupported(op, fw) ==
    IF op \in {"change_stp", "change_ntp"} THEN fw = GP
    ELSE fw = GP \/ fw < 8

\* The registers the operation writes, in the order of its writes
RegistersOf(op, args) ==
    CASE op = "change_stp" -> <<137, 138>>
      [] op = "change_ntp" -> <<139, 140>>
      [] op = "setpoint_ramp" -> <<160, 161>>
      [] op = "setpoint_limits" ->
            (IF args[1] # 0 THEN <<169>> ELSE <<>>) \o (IF args[2] # 0 THEN <<170>> ELSE <<>>)
      [] op = "flow_limit" -> <<165>>

\* The frames that write the registers addrs, one after the other
WritesRegisters(log, ID, addrs) ==
    /\ Len(log) = Len(addrs)
    /\ \A i \in 1..Len(log) :
          /\ log[i][1] = "write"
          /\ StartsWith(log[i][2], ID \o Cmd_Wreg(addrs[i]))

\* C30: change_stp and change_ntp on the legacy generation, and setpoint_ramp,
\* setpoint_limits and flow_limit on the legacy generation or a major below 8,
\* raise before any command is sent and leave the handle as it was; on the
\* other generations they send their register writes and raise nothing
C30_GenerationGate ==
    [][\A h \in Handles :
          call'[h].op \in GatedOps =>
              IF Unsupported(call'[h].op, handle[h].firmware_version)
              THEN /\ call'[h].err # "none"
                   /\ call'[h].log = <<>>
                   /\ handle'[h] = handle[h]
              ELSE /\ call'[h].err = "none"
                   /\ WritesRegisters(call'[h].log, handle[h].ID,
                                      RegistersOf(call'[h].op, call'[h].args))]_vars

\* The same without setpoint_limits
C30_GateButLimits ==
    [][\A h \in Handles :
          call'[h].op \in GatedOps \ {"setpoint_limits"} =>
              IF Unsupported(call'[h].op, handle[h].firmware_version)
              THEN /\ call'[h].err # "none"
                   /\ call'[h].log = <<>>
                   /\ handle'[h] = handle[h]
              ELSE /\ call'[h].err = "none"
                   /\ WritesRegisters(call'[h].log, handle[h].ID,
                                      RegistersOf(call'[h].op, call'[h].args))]_vars

-----------------------------------------------------------------------------
(* Selectors that are not valid (SpecWear, SpecId). *)

\* C31: set_gas with a gas that is no name and no index of the gas table raises,
\* sends no command and leaves the current gas and the count of gas changes
\* as they were
C31_UnknownGas ==
    [][\A h \in Handles :
          call'[h].op = "set_gas" /\ call'[h].args[1] \notin DOMAIN GasRef =>
              /\ call'[h].err # "none"
              /\ call'[h].log = <<>>
              /\ handle'[h].variables.current_gas = handle[h].variables.current_gas
              /\ handle'[h].variables.gas_changes = handle[h].variables.gas_changes
              /\ device' = device]_vars

\* set_gas('Xe') has raised after a change of gas that was sent
C31_Witness ==
    \E h \in Handles :
        /\ call[h].op = "set_gas" /\ call[h].args = <<"Xe">>
        /\ call[h].err = "KeyError" /\ call[h].log = <<>>
        /\ handle[h].variables.current_gas = "N2"

\* A single letter from A to Z
ValidTag(t) == Len(t) = 1 /\ t[1] \in 65..90

IsWrite17(e, ID) == e[1] = "write" /\ StartsWith(e[2], ID \o Cmd_W17)

\* C32: change_id with a tag that, in upper case, is not one letter from A to Z
\* raises, writes nothing to register 17 and leaves the tag of the handle
C32_InvalidTag ==
    [][\A h \in Handles :
          call'[h].op = "change_id" /\ ~ValidTag(Upper(call'[h].args[1])) =>
              /\ call'[h].err # "none"
              /\ \A i \in 1..Len(call'[h].log) : ~IsWrite17(call'[h].log[i], handle[h].ID)
              /\ handle'[h].ID = handle[h].ID]_vars

\* The same for the tags of more than one character only
C32_LongTag ==
    [][\A h \in Handles :
          call'[h].op = "change_id" /\ Len(call'[h].args[1]) # 1 =>
              /\ call'[h].err # "none"
              /\ call'[h].log = <<>>
              /\ handle'[h].ID = handle[h].ID]_vars

-----------------------------------------------------------------------------
(* Constructions that fail (SpecPressure). *)

\* The construction of h has ended in an exception
ConstructionFailed(h) ==
    call[h].op = "PressureMeter" /\ call[h].pc = "idle" /\ call[h].err # "none"

\* The construction of h opened the connection itself: the port was not
\* registered before it
OpenedPort(h) == \E i \in 1..Len(call[h].log) : call[h].log[i][1] = "open"

\* C33: a construction in which a discovery step raises returns no handle, and
\* the port it registered itself is not left registered and open
C33_AllOrNothing ==
    \A h \in Handles :
        ConstructionFailed(h) =>
            /\ ~handle[h].exists
            /\ OpenedPort(h) =>
                  /\ open_ports["ttyUSB0"] = NoConn
                  /\ \A k \in 1..Len(conns) : ~conns[k].is_open

\* The part on the handle alone
C33_NoHandleReturned ==
    \A h \in Handles : ConstructionFailed(h) => ~handle[h].exists

\* The firmware major of the unit on the port of h, as a construction without
\* a config file reads it
LiveMajor(h) ==
    P_fetch_device_data([variables |-> NoVariables, firmware_version |-> RawFirmware,
                         tables |-> device[handle[h].port].tables, log |-> <<>>,
                         err |-> "none", values |-> <<>>], handle[h].ID).firmware_version

\* C34: a construction from a config file whose firmware generation is not that
\* of the unit on the port raises, and returns no handle with the file applied
C34_SnapshotMismatch ==
    [][\A h \in Handles :
          /\ call'[h].op = "PressureMeter(config)"
          /\ call'[h].args[1] # LiveMajor(h)
          => /\ call'[h].err # "none"
             /\ ~handle'[h].exists]_vars

-----------------------------------------------------------------------------
(* The control loop (SpecGen). *)

Str_PDF == <<80, 68, 70>>

Str_PD2I == <<80, 68, 50, 73>>

\* The log is the one frame that reads register addr
ReadsOnly(log, ID, addr) ==
    Len(log) = 1 /\ log[1] = <<"write", ID \o Cmd_R \o Digits(addr) \o <<CR>>>>

\* C35: pid_loop(read=True) on a legacy flow controller reads register 23 and
\* returns 'PD2I' when its bit 0 is set and 'PDF' when it is clear, whatever
\* the other bits; on the other generations it reads register 85 and returns
\* 'PDF' for 0 and 'PD2I' from 2 on
C35_LoopRead ==
    [][\A h \in Handles :
          /\ call'[h].op = "pid_loop" /\ call'[h].args[2]
          /\ handle[h].class = "MassFlowController"
          => LET regs == device[handle[h].port].regs IN
             IF handle[h].firmware_version = GP
             THEN /\ ReadsOnly(call'[h].log, handle[h].ID, 23)
                  /\ call'[h].ret.line = IF regs[23] % 2 = 1 THEN Str_PD2I ELSE Str_PDF
             ELSE /\ ReadsOnly(call'[h].log, handle[h].ID, 85)
                  /\ regs[85] = 0 => call'[h].ret.line = Str_PDF
                  /\ regs[85] >= 2 => call'[h].ret.line = Str_PD2I]_vars

\* The same where the legacy register holds 0, 1 or an odd value
C35_LoopReadButEvenLegacy ==
    [][\A h \in Handles :
          /\ call'[h].op = "pid_loop" /\ call'[h].args[2]
          /\ handle[h].class = "MassFlowController"
          => LET regs == device[handle[h].port].regs IN
             IF handle[h].firmware_version = GP
             THEN /\ ReadsOnly(call'[h].log, handle[h].ID, 23)
                  /\ regs[23] % 2 = 1 \/ regs[23] = 0
                       => call'[h].ret.line = IF regs[23] % 2 = 1 THEN Str_PD2I ELSE Str_PDF
             ELSE /\ ReadsOnly(call'[h].log, handle[h].ID, 85)
                  /\ regs[85] = 0 => call'[h].ret.line = Str_PDF
                  /\ regs[85] >= 2 => call'[h].ret.line = Str_PD2I]_vars

\* The name of the loop a set is called with
LoopName(loop) == IF loop \in {"PDF", "0"} THEN Str_PDF ELSE Str_PD2I

\* C36: pid_loop(read=True) right after pid_loop(loop=X, read=False) returns X,
\* for every way of giving X and every generation; the set on a legacy unit
\* changes nothing but bit 0 of register 23
C36_LoopRoundTrip ==
    [][\A h \in Handles :
          /\ (/\ call[h].op = "pid_loop" /\ ~call[h].args[2]
              /\ call'[h].op = "pid_loop" /\ call'[h].args[2]
              => /\ call[h].err = "none"
                 /\ call'[h].err = "none"
                 /\ call'[h].ret.line = LoopName(call[h].args[1]))
          /\ (/\ call'[h].op = "pid_loop" /\ ~call'[h].args[2]
              /\ handle[h].firmware_version = GP
              => device'[handle[h].port].regs[23] \div 2
                   = device[handle[h].port].regs[23] \div 2)]_vars

\* The part on the legacy register alone
C36_LegacySetKeepsOtherBits ==
    [][\A h \in Handles :
          /\ call'[h].op = "pid_loop" /\ ~call'[h].args[2]
          /\ handle[h].firmware_version = GP
          => device'[handle[h].port].regs[23] \div 2 = device[handle[h].port].regs[23] \div 2]_vars

-----------------------------------------------------------------------------
(* The power-up setpoint (SpecPower). *)

IsWrite18(e, ID) == e[1] = "write" /\ StartsWith(e[2], ID \o Cmd_W18)

\* The text after '$$W18=' of a frame that writes register 18
Written18(e, ID) == SubSeq(e[2], Len(ID) + Len(Cmd_W18) + 1, Len(e[2]) - 1)

\* C37: powerup_setpoint writes register 18 last with the value it had before
\* the call less bit 15, every other bit as it was; no value it writes to the
\* register is negative or reaches bit 16; and the setpoint is sent while bit
\* 15 is set, in the register before the call or by the write before it
C37_PowerupBit15 ==
    [][\A h \in Handles :
          call'[h].op = "powerup_setpoint" /\ call'[h].err = "none" =>
              LET ID == handle[h].ID
                  log == call'[h].log
                  r18 == device[handle[h].port].regs[18]
                  w == {i \in 1..Len(log) : IsWrite18(log[i], ID)}
                  last == CHOOSE i \in w : \A j \in w : j <= i
                  sent == CHOOSE i \in 2..Len(log) : ~IsWrite18(log[i], ID)
              IN /\ w # {}
                 /\ \A i \in w : /\ IsDigits(Written18(log[i], ID))
                                 /\ DigitsValue(Written18(log[i], ID)) < 65536
                 /\ Written18(log[last], ID) = IntStr(r18 - AndBit(r18, 32768))
                 /\ IF sent = 2 THEN AndBit(r18, 32768) # 0
                    ELSE /\ IsDigits(Written18(log[sent - 1], ID))
                         /\ AndBit(DigitsValue(Written18(log[sent - 1], ID)), 32768) # 0]_vars

\* The same for the calls on a handle whose memory of the flag is that of the
\* register
C37_PowerupInStep ==
    [][\A h \in Handles :
          /\ call'[h].op = "powerup_setpoint" /\ call'[h].err = "none"
          /\ (handle[h].variables.ram_only_setpoint = 0)
               = (AndBit(device[handle[h].port].regs[18], 32768) # 0)
          => LET ID == handle[h].ID
                 log == call'[h].log
                 r18 == device[handle[h].port].regs[18]
                 w == {i \in 1..Len(log) : IsWrite18(log[i], ID)}
                 last == CHOOSE i \in w : \A j \in w : j <= i
             IN /\ w # {}
                /\ \A i \in w : /\ IsDigits(Written18(log[i], ID))
                                /\ DigitsValue(Written18(log[i], ID)) < 65536
                /\ Written18(log[last], ID) = IntStr(r18 - AndBit(r18, 32768))]_vars

-----------------------------------------------------------------------------
(* The control variable after construction (SpecReg). *)

\* The variable register 20 selects
SelectedVariable(r20) ==
    IF AndBit(r20, 1024) # 0 THEN "mass"
    ELSE IF AndBit(r20, 512) # 0 /\ AndBit(r20, 256) # 0 THEN "volumetric"
    ELSE "pressure"

\* C38: after the change_control_var(read=True) of the construction of a flow
\* controller, the control variable and the full scale the handle remembers
\* are those of the variable register 20 selects (bit 10: mass, bits 9 and 8:
\* volumetric, else pressure), and the call has written no register
C38_ControlVariableRead ==
    [][\A h \in Handles :
          /\ call'[h].op = "change_control_var" /\ call'[h].args = <<"mass", TRUE>>
          /\ call'[h].err = "none"
          => LET selected == SelectedVariable(device[handle[h].port].regs[20]) IN
             /\ handle'[h].variables.control_variable = LoopBits[selected]
             /\ handle'[h].variables.fullscale = Scales[selected]
             /\ call'[h].log = <<<<"write", Frame(handle[h].ID, Cmd_R20)>>>>
             /\ device' = device]_vars

\* The part on the registers: the read sends '$$R20' and nothing else
C38_ReadWritesNothing ==
    [][\A h \in Handles :
          call'[h].op = "change_control_var" /\ call'[h].args[2] /\ call'[h].err = "none"
          => /\ call'[h].log = <<<<"write", Frame(handle[h].ID, Cmd_R20)>>>>
             /\ device' = device]_vars

-----------------------------------------------------------------------------
(* The baud rate of a handle (Spec). *)

\* C39: the baud rate an open handle records is the rate its connection was
\* opened at, whatever constructions and changes of the rate came before
C39_HandleBaudIsConnectionBaud ==
    \A h \in Handles :
        handle[h].exists /\ handle[h].open =>
            handle[h].baud = conns[handle[h].connection].baud

\* The rate is in the baud table of the generation of the handle
RateInTable(h, rate) ==
    IF handle[h].firmware_version = GP THEN rate \in {2400, 9600, 19200, 38400}
    ELSE rate \in {2400, 9600, 19200, 38400, 57600, 115200}

\* C40: change_baud with a rate that is not in the baud table of the generation
\* raises without a write of register 87 or of register 17, and leaves the baud
\* of the handle, its connection, its being open and the registry as they were
C40_UnknownRate ==
    /\ [](\A h \in Handles :
            /\ handle[h].exists /\ call[h].op = "change_baud"
            /\ call[h].newbaud # handle[h].baud /\ ~RateInTable(h, call[h].newbaud)
            => /\ \A i \in 1..Len(call[h].log) :
                     call[h].log[i][1] = "write" =>
                        /\ ~StartsWith(call[h].log[i][2], handle[h].ID \o Cmd_W87)
                        /\ ~StartsWith(call[h].log[i][2], handle[h].ID \o Cmd_W17)
               /\ call[h].pc = "idle" => call[h].err # "none")
    /\ [][\A h \in Handles :
            /\ handle[h].exists /\ call'[h].op = "change_baud" /\ call'[h] # call[h]
            /\ ~RateInTable(h, call'[h].newbaud)
            => /\ handle'[h] = handle[h]
               /\ open_ports' = open_ports
               /\ Len(conns') = Len(conns)
               /\ \A k \in 1..Len(conns) : conns'[k].is_open = conns[k].is_open]_vars

\* The same on the legacy generation only
C40_UnknownRateLegacy ==
    /\ [](\A h \in Handles :
            /\ handle[h].exists /\ call[h].op = "change_baud"
            /\ call[h].newbaud # handle[h].baud /\ ~RateInTable(h, call[h].newbaud)
            /\ handle[h].firmware_version = GP
            => call[h].log = <<>> /\ call[h].pc = "idle" /\ call[h].err # "none")
    /\ [][\A h \in Handles :
            /\ handle[h].exists /\ call'[h].op = "change_baud" /\ call'[h] # call[h]
            /\ ~RateInTable(h, call'[h].newbaud)
            => /\ handle'[h] = handle[h]
               /\ open_ports' = open_ports
               /\ Len(conns') = Len(conns)
               /\ \A k \in 1..Len(conns) : conns'[k].is_open = conns[k].is_open]_vars

====
